---- MODULE Spec2Model ----
(***************************************************************************)
(* RP2350 foxoring transmitter: the synth object (parameter setters,       *)
(* apply_settings, calculate_buffers), the two chained DMA channels and    *)
(* the completion interrupt handler dma_irq_handler.                       *)
(*                                                                         *)
(* Real-valued parameters are kept in thousandths (amplitude 1.0 = 1000),  *)
(* the frequency in Hz.  The approximation target is an exact rational.    *)
(* The contents of a waveform buffer are named by the sample stream they   *)
(* quantise and by the dither draw (rand()) of the fill that wrote them;   *)
(* AllZero is the all-zero buffer.                                         *)
(***************************************************************************)
EXTENDS Integers, Sequences, FiniteSets, TLC

\* ---------------------------------------------------------------- constants
CPU_freq_actual == 200000000
max_words == 15000
maxIter == 100
INVALID_DMA == 999999

\* ------------------------------------------------------------------- inputs
FreqInputs == {0, 3579900}
AmplInputs == {1000, 2500}
DitherInputs == {1000, 3500}
Hd3AmplInputs == {45, 600}
Hd3PhaseInputs == {-611}
MaxWordsInputs == {3000, 15000}
ModeInputs == -1..6
RetuneMaxWordsInputs == {-1, 0, 1, 2, 3000, 10000, 15000, 20000}
RetuneModeInputs == {0, 1, 5}
DitherDraws == {1, 2}

\* Arguments of rational_approximation called on its own: targets tn/td, also
\* just outside [0,1], with every maxdenom of a small range; unit fractions
\* 1/n with small and large maxdenom; and the rows of test_rational_approx.
MaxTd == 9
MaxDenom == 12
MaxUnit == 40
GridInputs ==
  {i \in (-1..(MaxTd + 1)) \X (1..MaxTd) \X (0..MaxDenom) :
     i[1] <= i[2] + 1}
UnitInputs ==
  {<<1, n, m>> : n \in 1..MaxUnit,
                 m \in {0, 1, 2, 7, 39, 40, 41, 3000, 1048575}}
    \cup {<<1, 3001, m>> : m \in {299, 300, 301, 3000, 3001, 3002}}

\* test[] of test_rational_approx: target as tn/td, maxdenom, expected
\* numerator and denominator, maxiter
FareyTable ==
  << <<0, 1, 3000, 0, 1, 2>>,
     <<1, 1, 3000, 1, 1, 2>>,
     <<1, 2, 3000, 1, 2, 2>>,
     <<3003, 6002, 3000, 751, 1501, 5>>,
     <<1, 3001, 2500, 1, 2500, 2>>,
     <<1, 3001, 1500, 0, 1, 2>>,
     <<1, 3001, 3001, 1, 3001, 2>>,
     <<472757439, 1000000000, 1816, 564, 1193, 10>>,
     <<472757439, 1000000000, 1817, 859, 1817, 10>>,
     <<36, 125, 100000000, 36, 125, 10>>,
     <<9439, 20000, 1048575, 9439, 20000, 12>>,
     <<1, 128, 1048575, 1, 128, 12>>,
     <<1, 4096, 1048575, 1, 4096, 12>>,
     <<1, 16384, 1048575, 1, 16384, 12>>,
     <<1, 65536, 1048575, 1, 65536, 12>>,
     <<17, 65536, 1048575, 17, 65536, 12>>,
     <<32769, 65536, 1048575, 32769, 65536, 12>> >>
TableInputs ==
  {<<FareyTable[i][1], FareyTable[i][2], FareyTable[i][3]>> :
     i \in 1..Len(FareyTable)}
FareyInputs == GridInputs \cup UnitInputs \cup TableInputs

\* Calls of rational_approximation with a double target: the double nearest
\* to tn/td, times 2^-k, and maxdenom.  Fractions with small denominators and
\* small maxdenom, the rows of test[] whose target is written as a quotient
\* or a decimal number, targets next to zero and next to Ndenom_min, and
\* maxdenom up to 100000000.
DoubleGrid == 6
DoubleInputs ==
  {<<i[1], i[2], 0, i[3]>> :
     i \in {j \in (-1..(DoubleGrid + 1)) \X (1..DoubleGrid) \X (0..DoubleGrid) :
              j[1] <= j[2] + 1}}
    \cup {<<FareyTable[i][1], FareyTable[i][2], 0, FareyTable[i][3]>> :
            i \in (1..Len(FareyTable)) \ {4}}
    \cup {<<1, 3, k, m>> : k \in {0, 20, 27, 31, 40},
                          m \in {1000, 15000, 100000000}}
    \cup {<<tn, 1000000007, 0, m>> : tn \in {1, 2, 3, 11, 500000003},
                                     m \in {15000, 99999999, 100000000}}
    \cup {<<tn, 3001, 0, 100000000>> : tn \in {1, 1000, 3000}}
    \cup {<<1, td, 0, 100000000>> : td \in {999999999, 1000000000}}

\* the documented ranges of the parameters
\* Inputs of a fill routine run on its own.  FillCap stands for the capacity
\* max_words of the static arrays in these runs.
FillCap == 2
FillWordsInputs == 0..FillCap
FillModeInputs == 1..5
\* quantiser decisions of one stream, repeated over the slots
BinaryPatterns ==
  {<<"+">>, <<"-">>, <<"+", "-">>, <<"+", "+", "-">>,
   <<"-", "-", "+", "-", "+">>}
TrinaryPatterns ==
  {<<"0">>, <<"+">>, <<"0", "+">>, <<"-", "0", "0">>,
   <<"0", "-", "+", "0", "0">>, <<"+", "0", "-", "0", "+", "-", "0">>}
\* words left in the signal arrays by an earlier run
StaleWords == {{}, {0, 3, 31}}

\* Inputs of taper called on its own: the slot index n = ii*16 + jj and
\* n_max = n_words*16
TaperWordsInputs == {1, 2, 3, 4}
TaperInputs ==
  {<<n, 16 * w, f>> : n \in 0..63, w \in TaperWordsInputs, f \in BOOLEAN}
    \cap {i \in (0..63) \X (0..64) \X BOOLEAN : i[1] < i[2]}

\* Arguments of the serial commands.  freq takes Hz, dither, ampl and ampl3
\* thousandths, ph3 degrees; mode and bufsize are given in tenths, so that
\* arguments with a fractional part are among them.
CmdFreqInputs == {99999, 3500000, 20000001}
\* arguments of freq followed by stat or store: inside and outside the range
\* sanitize_config allows
StatFreqInputs == {3500000, 7000000, 99999}
CmdModeInputs == {-10, -5, 50, 55, 60}
CmdBufsizeInputs == {10, 19, 100000, 100005, 100010}
CmdDitherInputs == {-1, 1000, 3001}
CmdAmplInputs == {-1, 1000, 2001}
CmdAmplHD3Inputs == {-501, 45, 501}
CmdPhaseHD3Inputs == {-401, -35, 401}

\* Morse keying.  Time is counted in ms up to MaxTime (MaxLoopTime when
\* loop() runs); between two polls it advances by one of the tick lengths.
MaxTime == 400
MaxLoopTime == 2400
TickInputs == {1, 3}
LoopTickInputs == {12, 24}
\* characters whose letters are keyed on their own: E T A N O S B 1 ? $
LetterChars == {69, 84, 65, 78, 79, 83, 66, 49, 63, 36}
\* arguments of initMorseRate
RateInputs == {0, 4, 7, 60, 99, 100, 101, 200}
\* strings, as sequences of character codes: "", "E", "ET", "E T", " A",
\* "E*T", and "E" followed by the byte 200
StringInputs ==
  {<<>>, <<69>>, <<69, 84>>, <<69, 32, 84>>, <<32, 65>>, <<69, 42, 84>>,
   <<69, 200>>}
\* what the reads of MorseCodes and MorseLengths at an index past the end of
\* the tables yield: <<code, length>>
OobReads == {<<0, 0>>, <<1, 2>>}
\* current_config: wpm, fox_string ("E"), call ("", "T")
WpmInputs == {7, 50, 100}
FoxInputs == {<<69>>}
CallInputs == {<<>>, <<84>>}

\* the command line cmd.poll() finds at the start of a pass of loop(), as its
\* arguments: none, "keydown", "keydown 1", "keydown 0", "keydown 1 2"
KeyDownInputs == {<<>>, <<"keydown">>, <<"keydown", <<49>>>>,
                  <<"keydown", <<48>>>>, <<"keydown", <<49>>, <<50>>>>}

\* global_time while loop() is called with keydown commands coming in
MaxKeyTime == 600
KeyTickInputs == {12}

\* The configuration.  Strings are arrays of bytes: fox_string has
\* MAX_FOX_LEN + 1 of them, call MAX_CALL_LEN + 1.
MAX_FOX_LEN == 15
MAX_CALL_LEN == 31
MIN_FREQ == 3400000
MAX_FREQ == 3700000
DEFAULT_FREQ == 3550000
MIN_WPM == 5
MAX_WPM == 100
DEFAULT_WPM == 10
\* "MO" and ""
DEFAULT_FOX == <<77, 79>>
DEFAULT_CALL == <<>>
\* 0x600DF00D as the four bytes stored, least significant first
EEPROM_INITIALIZED_TOKEN == <<13, 240, 13, 96>>
\* a double that is not a number
NaN == -999
\* what the EEPROM may hold: frequencies NaN, below, at the ends of, inside
\* and above the range; rates likewise; fox strings "", "MOE", "ABC", sixteen
\* bytes 255 and sixteen letters M; call signs "", "X" and thirty-two bytes
\* 255; the token, four bytes 255 and four bytes 0
StoredFrequencies == {NaN, 0, 3399999, 3400000, 3600000, 3700000, 3700001}
StoredWpm == {-1, 4, 5, 20, 100, 101}
StoredFox ==
  {[i \in 1..16 |-> 0],
   [i \in 1..16 |-> IF i <= 3 THEN <<77, 79, 69>>[i] ELSE 0],
   [i \in 1..16 |-> IF i <= 3 THEN <<65, 66, 67>>[i] ELSE 0],
   [i \in 1..16 |-> 255],
   [i \in 1..16 |-> 77]}
StoredCall ==
  {[i \in 1..32 |-> 0],
   [i \in 1..32 |-> IF i = 1 THEN 88 ELSE 0],
   [i \in 1..32 |-> 255]}
StoredTokens ==
  {EEPROM_INITIALIZED_TOKEN, <<255, 255, 255, 255>>, <<0, 0, 0, 0>>}
\* the eight switches as the bits of a number, SW0 the lowest
SwitchInputs == 0..255
\* arguments of fox_num_to_config, apply_frequency_switch and
\* fox_string_to_num called on their own
FoxNumInputs == -1..10
FreqSwitchInputs == -1..16
FoxStringInputs ==
  {<<>>, <<77>>, <<77, 79>>, <<77, 79, 69>>, <<77, 79, 73>>, <<77, 79, 83>>,
   <<77, 79, 72>>, <<77, 79, 53>>, <<77, 79, 78>>, <<77, 79, 68>>,
   <<77, 79, 69, 69>>, <<109, 111>>}
\* what a read of foxes[n] before the start of the array yields
OobFoxes == {<<>>, <<90, 90>>}

FreqInRange(f) == f > 0
AmplInRange(a) == a >= 0 /\ a <= 2000
DitherInRange(a) == a >= 0 /\ a <= 3000
Hd3AmplInRange(a) == a >= -500 /\ a <= 500
MaxWordsInRange(m) == m >= 2 /\ m <= 10000

VARIABLES
  pc,                  \* position of the control path
  frequency, dither_amplitude, amplitude, hd3_amplitude, hd3_phase_rad,
  max_words_limit, mode, n_words, n_periods, needs_recalculation,
  pio_program,         \* "NULL", "serialiser" or "toggle"
  rf_pindirs_out,      \* the RF pins are driven as outputs
  synth_dma, restart_dma,   \* channel numbers, INVALID_DMA when unclaimed
  claimed,             \* set of claimed DMA channel numbers
  synth_buffer, synth_buffer_ramp_up, synth_buffer_ramp_down,
  synth_buffer_silent,
  enable_transmit, dma_state,
  synth_en, restart_en,     \* CTRL.EN of the two channels
  synth_busy, restart_busy, \* CTRL.BUSY of the two channels
  synth_read,          \* buffer the data channel streams (or streamed last)
  restart_read,        \* pointer cell the restart channel will copy next
  irq0_enabled,        \* INTE0 bit of the restart channel
  irq_pending,         \* INTS0 bit of the restart channel
  \* history variables
  serial_last,         \* last line printed on Serial
  since_apply,         \* "none", "clean" (apply done, no setter since), "dirty"
  calc_runs,           \* calculate_buffers runs inside the current apply_settings
  last_sel,            \* buffer selected by the latest handler run
  restarted,           \* setup_dma ran and no buffer has been streamed since
  edge,                \* last change of enable_transmit since the latest handler run
  req, req_age,        \* keying request under observation, buffers started since
  req_hit,             \* the requested ramp buffer has been started since
  ra_call,             \* a call of rational_approximation on its own: position,
                       \* arguments, loop variables, passes made
  fill_call,           \* a run of one fill routine on its own, word by word:
                       \* position, mode, n_words, quantiser decisions, loop
                       \* variables, the four arrays, the words generated
  taper_call,          \* a call of taper on its own: position, arguments,
                       \* value returned
  config_frequency,    \* current_config.frequency
  cmd_after,           \* what the running command does after apply_settings
  cmd_last,            \* the latest command, its argument, and a bit that
                       \* flips with every command
  cfg_call,            \* the configuration routines on their own: position,
                       \* the EEPROM contents, current_config, and the
                       \* latest call with its argument, the configuration
                       \* before it and its result
  morse                \* the Morse keyer: global_time, the rate variables,
                       \* the statics of loop, sendMorseString,
                       \* sendMorseLetter and sendPause, the configuration,
                       \* the transmitter, and logs of what was scheduled

params == <<frequency, dither_amplitude, amplitude, hd3_amplitude,
            hd3_phase_rad, max_words_limit, mode>>
buffers == <<synth_buffer, synth_buffer_ramp_up, synth_buffer_ramp_down,
             synth_buffer_silent>>
lengths == <<n_words, n_periods>>
pio == <<pio_program, rf_pindirs_out>>
dma_ids == <<synth_dma, restart_dma, claimed>>
dma_regs == <<synth_en, restart_en, synth_busy, restart_busy, synth_read,
              restart_read, irq0_enabled, irq_pending>>
hist_sel == <<last_sel, edge>>
hist_stream == <<restarted>>
hist_req == <<req, req_age, req_hit>>
hist_apply == <<since_apply, calc_runs>>
synth_vars == <<pc, params, lengths, needs_recalculation, pio, dma_ids, buffers,
          enable_transmit, dma_state, dma_regs, serial_last, hist_apply,
          hist_sel, hist_stream, hist_req>>
cmd_vars == <<config_frequency, cmd_after, cmd_last>>
calls == <<ra_call, fill_call, taper_call, morse, cfg_call>>
aside == <<calls, cmd_vars>>
ctl_vars == <<synth_vars, cmd_vars>>
not_farey == <<ctl_vars, fill_call, taper_call, morse, cfg_call>>
not_fill == <<ctl_vars, ra_call, taper_call, morse, cfg_call>>
not_taper == <<ctl_vars, ra_call, fill_call, morse, cfg_call>>
not_morse == <<ctl_vars, ra_call, fill_call, taper_call, cfg_call>>
not_config == <<ctl_vars, ra_call, fill_call, taper_call, morse>>
vars == <<synth_vars, aside>>

\* ------------------------------------------------------------ pure helpers
RECURSIVE GCD(_, _)
GCD(x, y) == IF y = 0 THEN x ELSE GCD(y, x % y)

Min(x, y) == IF x < y THEN x ELSE y

\* A uint32_t value as its two 16-bit halves (the value may exceed the
\* largest integer the checker can hold).  Uint32(m) is the conversion of the
\* int m to uint32_t: m itself when m >= 0, m + 2^32 when m < 0.
Uint32(m) ==
  IF m >= 0
  THEN [hi |-> m \div 65536, lo |-> m % 65536]
  ELSE [hi |-> 65535 - ((-m - 1) \div 65536),
        lo |-> 65535 - ((-m - 1) % 65536)]

\* u is below 2^31
U32Small(u) == u.hi < 32768

\* the value of u, for u below 2^31
U32Val(u) == u.hi * 65536 + u.lo

\* x > u for a non-negative integer x below 2^31
GtU32(x, u) == U32Small(u) /\ x > U32Val(u)

\* Ndenom < Ndenom_min = 1/(10*maxdenom), for Ndenom = r/td with r >= 0
NearZero(td, maxdenom, r) ==
  \/ r = 0
  \/ U32Small(maxdenom) /\ r <= ((td - 1) \div U32Val(maxdenom)) \div 10

\* Nint without the limit that keeps the denominator within maxdenom
FareyNint_unlimited(maxdenom, num, den, cur, step) ==
  IF num \div den < 1 THEN 1 ELSE num \div den

\* Nint without the fast forward: one mediant step per pass
FareyNint_single(maxdenom, num, den, cur, step) == 1

\* Nint that makes no step at all
FareyNint_stall(maxdenom, num, den, cur, step) == 0

\* Nint: floor(num/den), at least 1, limited so that cur + Nint*step does
\* not exceed maxdenom
FareyNint(maxdenom, num, den, cur, step) ==
  LET N == num \div den
      N1 == IF N < 1 THEN 1 ELSE N
  IN IF U32Small(maxdenom) /\ N1 > (U32Val(maxdenom) - cur) \div step
     THEN (U32Val(maxdenom) - cur) \div step
     ELSE N1

\* the selection with the comparison reversed
FareyBest_farther(s) ==
  IF s.ra * s.d > s.rc * s.b
  THEN [s EXCEPT !.done = TRUE, !.ac = s.a, !.bd = s.b]
  ELSE [s EXCEPT !.done = TRUE, !.ac = s.c, !.bd = s.d]

\* "Select the best of a/b and c/d": target - a/b < c/d - target
FareyBest(s) ==
  IF s.ra * s.d < s.rc * s.b
  THEN [s EXCEPT !.done = TRUE, !.ac = s.a, !.bd = s.b]
  ELSE [s EXCEPT !.done = TRUE, !.ac = s.c, !.bd = s.d]

\* One pass of the Farey loop of rational_approximation for target = tn/td.
\* s holds a, b, c, d, ii and the two differences the code recomputes in
\* every pass, scaled by td so that they are integers:
\*   ra = (target*b - a) * td,   rc = (c - target*d) * td,
\* so that target < mediant is ra < rc.  The result has done = TRUE once the
\* loop has been left, with ac/bd the returned fraction.
FareyPass(td, maxdenom, s) ==
  IF GtU32(s.b + s.d, maxdenom) \/ s.ii > maxIter
  THEN FareyBest(s)
  ELSE IF s.ra < s.rc
  THEN \* target < mediant: discard c/d
       IF NearZero(td, maxdenom, s.ra)
       THEN [s EXCEPT !.done = TRUE, !.ac = s.a, !.bd = s.b]
       ELSE LET Nint == FareyNint(maxdenom, s.rc, s.ra, s.d, s.b)
            IN [s EXCEPT !.c = s.c + Nint * s.a,
                         !.d = s.d + Nint * s.b,
                         !.rc = s.rc - Nint * s.ra,
                         !.ii = s.ii + 1]
  ELSE \* discard a/b
       IF NearZero(td, maxdenom, s.rc)
       THEN [s EXCEPT !.done = TRUE, !.ac = s.c, !.bd = s.d]
       ELSE LET Nint == FareyNint(maxdenom, s.ra, s.rc, s.b, s.d)
            IN [s EXCEPT !.a = s.a + Nint * s.c,
                         !.b = s.b + Nint * s.d,
                         !.ra = s.ra - Nint * s.rc,
                         !.ii = s.ii + 1]

\* the loop entered with the upper bound written as 2/2
FareyStart_unreduced(tn, td) ==
  [a |-> 0, b |-> 1, c |-> 2, d |-> 2, ra |-> tn, rc |-> 2 * (td - tn),
   ii |-> 0, done |-> FALSE, ac |-> 0, bd |-> 0]

\* the loop state on entry: a/b = 0/1, c/d = 1/1, ii = 0
FareyStart(tn, td) ==
  [a |-> 0, b |-> 1, c |-> 1, d |-> 1, ra |-> tn, rc |-> td - tn, ii |-> 0,
   done |-> FALSE, ac |-> 0, bd |-> 0]

\* out-of-range targets answered with the opposite boundary
FareyInvalid_opposite(n) ==
  [a |-> 0, b |-> 1, c |-> 1, d |-> 1, ra |-> 0, rc |-> 0, ii |-> 0,
   done |-> TRUE, ac |-> 1 - n, bd |-> 1]

\* the loop state at return for out-of-range targets
FareyInvalid(n) ==
  [a |-> 0, b |-> 1, c |-> 1, d |-> 1, ra |-> 0, rc |-> 0, ii |-> 0,
   done |-> TRUE, ac |-> n, bd |-> 1]

\* maxdenom < 1 is replaced by 1
ClampDenom(maxdenom) ==
  IF maxdenom.hi = 0 /\ maxdenom.lo < 1 THEN Uint32(1) ELSE maxdenom

\* The Farey loop run to its exit.
RECURSIVE FareyLoop(_, _, _)
FareyLoop(td, maxdenom, s) ==
  IF s.done THEN s ELSE FareyLoop(td, maxdenom, FareyPass(td, maxdenom, s))

\* rational_approximation(target, maxdenom) with target = tn/td, td > 0, and
\* maxdenom a uint32_t.
rational_approximation(tn, td, maxdenom) ==
  LET s == IF tn > td THEN FareyInvalid(1)
           ELSE IF tn < 0 THEN FareyInvalid(0)
           ELSE FareyLoop(td, ClampDenom(maxdenom), FareyStart(tn, td))
  IN [numerator |-> s.ac, denominator |-> s.bd, iterations |-> s.ii]

\* ---------------------------------------------------- double arithmetic
\* rational_approximation computes in double.  A double is held as its exact
\* value (-1)^neg * m * 2^e with m a natural number of any size, written as a
\* sequence of Limb-sized digits, least significant first and without leading
\* zeros; every operation computes the exact result and rounds it to 53
\* significant bits, to nearest and to even on a tie, as IEEE 754 arithmetic
\* does.  Exponent range is not modelled: no value of the routine comes near
\* overflow or the subnormal numbers.
Limb == 2 ^ 14

RECURSIVE BigNorm(_)
BigNorm(x) ==
  IF x = <<>> THEN <<>>
  ELSE IF x[Len(x)] = 0 THEN BigNorm(SubSeq(x, 1, Len(x) - 1))
  ELSE x

\* the natural number n
RECURSIVE BigOf(_)
BigOf(n) == IF n = 0 THEN <<>> ELSE <<n % Limb>> \o BigOf(n \div Limb)

\* the value of x, for x below 2^31
RECURSIVE BigVal(_)
BigVal(x) == IF x = <<>> THEN 0 ELSE x[1] + Limb * BigVal(Tail(x))

RECURSIVE BigCmpFrom(_, _, _)
BigCmpFrom(x, y, i) ==
  IF i = 0 THEN 0
  ELSE IF x[i] # y[i] THEN (IF x[i] < y[i] THEN -1 ELSE 1)
  ELSE BigCmpFrom(x, y, i - 1)

\* -1, 0, 1 as x < y, x = y, x > y
BigCmp(x, y) ==
  IF Len(x) # Len(y) THEN (IF Len(x) < Len(y) THEN -1 ELSE 1)
  ELSE BigCmpFrom(x, y, Len(x))

\* digit i of x, 0 beyond its length
BigDigitOf(x, i) == IF i <= Len(x) THEN x[i] ELSE 0

RECURSIVE BigAddFrom(_, _, _, _)
BigAddCarry(x, y, i, t) == <<t % Limb>> \o BigAddFrom(x, y, i + 1, t \div Limb)
BigAddFrom(x, y, i, carry) ==
  IF i > Len(x) /\ i > Len(y)
  THEN (IF carry = 0 THEN <<>> ELSE <<carry>>)
  ELSE BigAddCarry(x, y, i, BigDigitOf(x, i) + BigDigitOf(y, i) + carry)

BigAdd(x, y) == BigAddFrom(x, y, 1, 0)

RECURSIVE BigSubFrom(_, _, _, _)
BigSubBorrow(x, y, i, t) ==
  IF t < 0 THEN <<t + Limb>> \o BigSubFrom(x, y, i + 1, 1)
  ELSE <<t>> \o BigSubFrom(x, y, i + 1, 0)
BigSubFrom(x, y, i, borrow) ==
  IF i > Len(x) THEN <<>>
  ELSE BigSubBorrow(x, y, i, x[i] - BigDigitOf(y, i) - borrow)

\* x - y for x >= y
BigSub(x, y) == BigNorm(BigSubFrom(x, y, 1, 0))

RECURSIVE BigMulSmallFrom(_, _, _, _)
BigMulSmallCarry(x, k, i, t) ==
  <<t % Limb>> \o BigMulSmallFrom(x, k, i + 1, t \div Limb)
BigMulSmallFrom(x, k, i, carry) ==
  IF i > Len(x) THEN (IF carry = 0 THEN <<>> ELSE <<carry>>)
  ELSE BigMulSmallCarry(x, k, i, x[i] * k + carry)

\* x * k for 0 <= k <= Limb
BigMulSmall(x, k) == IF k = 0 THEN <<>> ELSE BigMulSmallFrom(x, k, 1, 0)

\* x * Limb^n
BigShiftLimbs(x, n) == IF x = <<>> THEN <<>> ELSE [i \in 1..n |-> 0] \o x

RECURSIVE BigMulFrom(_, _, _)
BigMulFrom(x, y, i) ==
  IF i > Len(y) THEN <<>>
  ELSE BigAdd(BigShiftLimbs(BigMulSmall(x, y[i]), i - 1),
              BigMulFrom(x, y, i + 1))

BigMul(x, y) == BigMulFrom(x, y, 1)

\* x * 2^k
BigShl(x, k) == BigShiftLimbs(BigMulSmall(x, 2 ^ (k % 14)), k \div 14)

RECURSIVE SmallBitLen(_)
SmallBitLen(n) == IF n = 0 THEN 0 ELSE 1 + SmallBitLen(n \div 2)

\* the number of bits of x
BigBitLen(x) ==
  IF x = <<>> THEN 0 ELSE 14 * (Len(x) - 1) + SmallBitLen(x[Len(x)])

BigOdd(x) == x # <<>> /\ x[1] % 2 = 1

\* the largest t in lo..hi with d * t <= n
RECURSIVE BigDigit(_, _, _, _)
BigDigitAt(n, d, lo, hi, mid) ==
  IF BigCmp(BigMulSmall(d, mid), n) <= 0
  THEN BigDigit(n, d, mid, hi)
  ELSE BigDigit(n, d, lo, mid - 1)
BigDigit(n, d, lo, hi) ==
  IF lo = hi THEN lo ELSE BigDigitAt(n, d, lo, hi, (lo + hi + 1) \div 2)

\* long division: the digits of the quotient from position k down, and the
\* remainder; dk is d * Limb^k and t the digit at position k
RECURSIVE BigDivFrom(_, _, _)
BigDivJoin(rest, t) == <<Append(rest[1], t), rest[2]>>
BigDivWith(n, d, k, dk, t) ==
  BigDivJoin(BigDivFrom(BigSub(n, BigMulSmall(dk, t)), d, k - 1), t)
BigDivAt(n, d, k, dk) == BigDivWith(n, d, k, dk, BigDigit(n, dk, 0, Limb - 1))
BigDivFrom(n, d, k) ==
  IF k < 0 THEN <<<<>>, n>> ELSE BigDivAt(n, d, k, BigShiftLimbs(d, k))

\* <<n div d, n mod d>> for d > 0
BigDivTrim(qr) == <<BigNorm(qr[1]), qr[2]>>
BigDivMod(n, d) ==
  IF Len(n) < Len(d) THEN <<<<>>, n>>
  ELSE BigDivTrim(BigDivFrom(n, d, Len(n) - Len(d)))

DblZero == [neg |-> FALSE, m |-> <<>>, e |-> 0]

\* the quotient qr[1] of a division by d with remainder qr[2], rounded to
\* nearest and to even on a tie
DblRoundQuot(qr, d) ==
  IF BigCmp(BigAdd(qr[2], qr[2]), d) + (IF BigOdd(qr[1]) THEN 1 ELSE 0) > 0
  THEN BigAdd(qr[1], <<1>>)
  ELSE qr[1]

\* n / d rounded to an integer
DblRoundDiv(n, d) == DblRoundQuot(BigDivMod(n, d), d)

\* n/d lies between 2^52 and 2^54 and qr is its quotient and remainder: the
\* quotient is cut to 53 bits
DblRoundFit(neg, n, d, e, qr) ==
  IF BigBitLen(qr[1]) = 54
  THEN [neg |-> neg, m |-> DblRoundDiv(n, BigAdd(d, d)), e |-> e + 1]
  ELSE [neg |-> neg, m |-> DblRoundQuot(qr, d), e |-> e]

DblRoundScaled(neg, n, d, e) == DblRoundFit(neg, n, d, e, BigDivMod(n, d))

\* sh is the power of two that brings n/d between 2^52 and 2^54
DblRoundBy(neg, n, d, e, sh) ==
  IF sh >= 0 THEN DblRoundScaled(neg, BigShl(n, sh), d, e - sh)
  ELSE DblRoundScaled(neg, n, BigShl(d, -sh), e - sh)

\* the double nearest to (-1)^neg * n / d * 2^e, for d > 0
DblRound(neg, n, d, e) ==
  IF n = <<>> THEN DblZero
  ELSE DblRoundBy(neg, n, d, e, 53 - (BigBitLen(n) - BigBitLen(d)))

\* (double) n for a uint32_t n
DblOf(n) == [neg |-> FALSE, m |-> BigOf(n), e |-> 0]

\* x - y without rounding, x and y given by sign and magnitude in the same
\* unit 2^e
DblDiffOf(xneg, xm, yneg, ym, e) ==
  IF xneg # yneg \/ xm = <<>> \/ ym = <<>>
  THEN [neg |-> IF xm = <<>> THEN ~yneg ELSE xneg, m |-> BigAdd(xm, ym),
        e |-> e]
  ELSE IF BigCmp(xm, ym) >= 0
  THEN [neg |-> xneg, m |-> BigSub(xm, ym), e |-> e]
  ELSE [neg |-> ~xneg, m |-> BigSub(ym, xm), e |-> e]

DblDiffAt(x, y, e) ==
  DblDiffOf(x.neg, BigShl(x.m, x.e - e), y.neg, BigShl(y.m, y.e - e), e)

\* x - y without rounding
DblDiff(x, y) == DblDiffAt(x, y, Min(x.e, y.e))

\* the value is below zero
DblNegative(x) == x.neg /\ x.m # <<>>

\* the double nearest to an exact value
DblRounded(r) == DblRound(r.neg, r.m, <<1>>, r.e)

\* x - y, x * y, x / y and x < y in double
DblSub(x, y) == DblRounded(DblDiff(x, y))
DblMul(x, y) ==
  DblRound(x.neg # y.neg, BigMul(x.m, y.m), <<1>>, x.e + y.e)
DblDiv(x, y) == DblRound(x.neg # y.neg, x.m, y.m, x.e - y.e)
DblLess(x, y) == DblNegative(DblDiff(x, y))

\* floor(x) for x >= 0
DblFloor(x) ==
  IF x.e >= 0 THEN BigShl(x.m, x.e)
  ELSE BigDivMod(x.m, BigShl(<<1>>, -x.e))[1]

\* x * n without rounding, for a uint32_t n
DblTimes(x, n) == [neg |-> x.neg, m |-> BigMul(x.m, BigOf(n)), e |-> x.e]

\* a value does not fit a uint32_t
Beyond32(x) == BigBitLen(x) > 32

\* the double target of a call: the double nearest to tn/td, times 2^-k
DblScaled(r, k) == [r EXCEPT !.e = @ - k]
DblTarget(tn, td, k) ==
  DblScaled(DblRound(tn < 0, BigOf(IF tn < 0 THEN -tn ELSE tn), BigOf(td), 0),
            k)

\* a guard against division by zero only
DblNearZero_zero_only(Ndenom, maxdenom) == ~DblLess(DblOf(0), Ndenom)

\* Ndenom < Ndenom_min, with Ndenom_min = 1/((double) 10*maxdenom)
DblNearZero(Ndenom, maxdenom) ==
  DblLess(Ndenom, DblDiv(DblOf(1), DblMul(DblOf(10), DblOf(maxdenom))))

\* "Limit N, as the denominator would otherwise become too large": wide holds
\* floor(N), Nint*step and cur + Nint*step as the numbers they are, before
\* they are stored in a uint32_t; negative tells that N is below zero, which
\* no uint32_t can hold either
DblFareyLimit(maxdenom, cur, step, negative, floorN, Nint, prod, sum) ==
  [Nint |-> IF BigCmp(sum, BigOf(maxdenom)) > 0
            THEN DblFloor(DblDiv(DblOf(maxdenom - cur), DblOf(step)))
            ELSE Nint,
   wide |-> <<floorN, prod, sum>>,
   negative |-> negative]

DblFareyProduct(maxdenom, cur, step, negative, floorN, Nint, prod) ==
  DblFareyLimit(maxdenom, cur, step, negative, floorN, Nint, prod,
                BigAdd(BigOf(cur), prod))

DblFareyAtLeast1(maxdenom, cur, step, negative, floorN, Nint) ==
  DblFareyProduct(maxdenom, cur, step, negative, floorN, Nint,
                  BigMul(Nint, BigOf(step)))

DblFareyFloor(maxdenom, cur, step, negative, floorN) ==
  DblFareyAtLeast1(maxdenom, cur, step, negative, floorN,
                   IF BigCmp(floorN, <<1>>) < 0 THEN <<1>> ELSE floorN)

\* Nint = floor(N), raised to 1 and limited so that cur + Nint*step does not
\* exceed maxdenom
DblFareyNint(maxdenom, N, cur, step) ==
  DblFareyFloor(maxdenom, cur, step, DblNegative(N), DblFloor(N))

\* "Select the best of a/b and c/d": target - a/(double)b < c/(double)d - target
DblFareyBest(T, s) ==
  IF DblLess(DblSub(T, DblDiv(DblOf(s.a), DblOf(s.b))),
             DblSub(DblDiv(DblOf(s.c), DblOf(s.d)), T))
  THEN [s EXCEPT !.done = TRUE, !.ac = s.a, !.bd = s.b, !.side = "none"]
  ELSE [s EXCEPT !.done = TRUE, !.ac = s.c, !.bd = s.d, !.side = "none"]

\* the loop state on entry: a/b = 0/1, c/d = 1/1, ii = 0.  side, Nint and
\* from record the latest fast forward (the bound moved, by how many steps,
\* from which bounds), wide the unsigned intermediates of the latest pass as
\* the numbers they are, wrapped that one of them did not fit a uint32_t
\* (the call is then followed no further).
DblFareyStart ==
  [a |-> 0, b |-> 1, c |-> 1, d |-> 1, ii |-> 0, done |-> FALSE,
   ac |-> 0, bd |-> 0, side |-> "none", Nint |-> 0, from |-> <<0, 1, 1, 1>>,
   wide |-> <<>>, wrapped |-> FALSE]

\* the loop state at return for out-of-range targets
DblFareyInvalid(n) ==
  [DblFareyStart EXCEPT !.done = TRUE, !.ac = n, !.bd = 1]

\* the bound on the given side moved by n mediant steps
DblFareyMoved(s, side, n, wide) ==
  IF side = "c"
  THEN [s EXCEPT !.c = s.c + n * s.a, !.d = s.d + n * s.b,
                 !.ii = s.ii + 1, !.side = side, !.Nint = n,
                 !.from = <<s.a, s.b, s.c, s.d>>, !.wide = wide]
  ELSE [s EXCEPT !.a = s.a + n * s.c, !.b = s.b + n * s.d,
                 !.ii = s.ii + 1, !.side = side, !.Nint = n,
                 !.from = <<s.a, s.b, s.c, s.d>>, !.wide = wide]

DblFareyStored(s, r, side, wide) ==
  IF r.negative \/ \E i \in 1..Len(wide) : Beyond32(wide[i])
  THEN [s EXCEPT !.done = TRUE, !.wrapped = TRUE, !.wide = wide,
                 !.side = "none"]
  ELSE DblFareyMoved(s, side, BigVal(r.Nint), wide)

\* "Fast forward to a good c/d" (side "c") or "a/b" (side "a")
DblFareyForward(s, r, side, sums) == DblFareyStored(s, r, side, sums \o r.wide)

\* target < mediant: discard c/d
DblFareyLower(T, maxdenom, s, sums, Ndenom) ==
  IF DblNearZero(Ndenom, maxdenom)
  THEN [s EXCEPT !.done = TRUE, !.ac = s.a, !.bd = s.b, !.side = "none",
                 !.wide = sums]
  ELSE DblFareyForward(
         s,
         DblFareyNint(maxdenom,
                      DblDiv(DblSub(DblOf(s.c), DblMul(T, DblOf(s.d))),
                             Ndenom),
                      s.d, s.b),
         "c", sums)

\* discard a/b
DblFareyUpper(T, maxdenom, s, sums, Ndenom) ==
  IF DblNearZero(Ndenom, maxdenom)
  THEN [s EXCEPT !.done = TRUE, !.ac = s.c, !.bd = s.d, !.side = "none",
                 !.wide = sums]
  ELSE DblFareyForward(
         s,
         DblFareyNint(maxdenom,
                      DblDiv(DblSub(DblMul(T, DblOf(s.b)), DblOf(s.a)),
                             Ndenom),
                      s.b, s.d),
         "a", sums)

\* the pass from the test of bd on
DblFareyWith(T, maxdenom, s, ac, bd) ==
  IF bd > maxdenom \/ s.ii > maxIter
  THEN [DblFareyBest(T, s) EXCEPT !.wide = <<BigOf(ac), BigOf(bd)>>]
  ELSE IF DblLess(T, DblDiv(DblOf(ac), DblOf(bd)))
  THEN DblFareyLower(T, maxdenom, s, <<BigOf(ac), BigOf(bd)>>,
                     DblSub(DblMul(T, DblOf(s.b)), DblOf(s.a)))
  ELSE DblFareyUpper(T, maxdenom, s, <<BigOf(ac), BigOf(bd)>>,
                     DblSub(DblOf(s.c), DblMul(T, DblOf(s.d))))

\* One pass of the Farey loop of rational_approximation, in double and
\* uint32_t arithmetic as the code has it.
DblFareyPass(T, maxdenom, s) ==
  DblFareyWith(T, maxdenom, s, s.a + s.c, s.b + s.d)

\* frequency * 16.0 / CPU_freq_actual as a reduced fraction
TargetOf(f) ==
  LET g == GCD(IF f < 0 THEN -f * 16 ELSE f * 16, CPU_freq_actual)
  IN [n |-> (f * 16) \div g, d |-> CPU_freq_actual \div g]

\* calculate_buffers that scales n_words but not n_periods
BufferLengths_periods_unscaled(f, limit) ==
  LET t == TargetOf(f)
      PperW == rational_approximation(t.n, t.d,
                                      Uint32(Min(max_words, limit)))
      n_mult == max_words \div PperW.denominator
  IN [n_periods |-> PperW.numerator,
      n_words |-> PperW.denominator * n_mult]

\* calculate_buffers without the scaling by n_mult
BufferLengths_unscaled(f, limit) ==
  LET t == TargetOf(f)
      PperW == rational_approximation(t.n, t.d,
                                      Uint32(Min(max_words, limit)))
  IN [n_periods |-> PperW.numerator, n_words |-> PperW.denominator]

\* calculate_buffers that rounds the scaling factor up
BufferLengths_roundup(f, limit) ==
  LET t == TargetOf(f)
      PperW == rational_approximation(t.n, t.d,
                                      Uint32(Min(max_words, limit)))
      n_mult == max_words \div PperW.denominator + 1
  IN [n_periods |-> PperW.numerator * n_mult,
      n_words |-> PperW.denominator * n_mult]

\* n_periods and n_words as calculate_buffers computes them
BufferLengths(f, limit) ==
  LET t == TargetOf(f)
      PperW == rational_approximation(t.n, t.d,
                                      Uint32(Min(max_words, limit)))
      n_mult == max_words \div PperW.denominator
  IN [n_periods |-> PperW.numerator * n_mult,
      n_words |-> PperW.denominator * n_mult]

\* taper works in fixed point: 1.0 is TaperOne, an angle is a multiple of
\* pi/TaperSteps
TaperOne == 2000000
TaperSteps == 192

\* (TaperOne/2) * cos(k*pi/TaperSteps) for k = 0..TaperSteps, rounded
CosTable ==
  <<
   1000000, 999866, 999465, 998795, 997859, 996655, 995185, 993448,
   991445, 989177, 986643, 983846, 980785, 977462, 973877, 970031,
   965926, 961562, 956940, 952063, 946930, 941544, 935906, 930017,
   923880, 917494, 910864, 903989, 896873, 889516, 881921, 874090,
   866025, 857729, 849202, 840448, 831470, 822268, 812847, 803208,
   793353, 783287, 773010, 762527, 751840, 740951, 729864, 718582,
   707107, 695443, 683592, 671559, 659346, 646956, 634393, 621661,
   608761, 595699, 582478, 569100, 555570, 541892, 528068, 514103,
   500000, 485763, 471397, 456904, 442289, 427555, 412707, 397748,
   382683, 367516, 352250, 336890, 321439, 305903, 290285, 274589,
   258819, 242980, 227076, 211112, 195090, 179017, 162895, 146730,
   130526, 114287, 98017, 81721, 65403, 49068, 32719, 16362,
   0, -16362, -32719, -49068, -65403, -81721, -98017, -114287,
   -130526, -146730, -162895, -179017, -195090, -211112, -227076, -242980,
   -258819, -274589, -290285, -305903, -321439, -336890, -352250, -367516,
   -382683, -397748, -412707, -427555, -442289, -456904, -471397, -485763,
   -500000, -514103, -528068, -541892, -555570, -569100, -582478, -595699,
   -608761, -621661, -634393, -646956, -659346, -671559, -683592, -695443,
   -707107, -718582, -729864, -740951, -751840, -762527, -773010, -783287,
   -793353, -803208, -812847, -822268, -831470, -840448, -849202, -857729,
   -866025, -874090, -881921, -889516, -896873, -903989, -910864, -917494,
   -923880, -930017, -935906, -941544, -946930, -952063, -956940, -961562,
   -965926, -970031, -973877, -977462, -980785, -983846, -986643, -989177,
   -991445, -993448, -995185, -996655, -997859, -998795, -999465, -999866,
   -1000000>>

\* (TaperOne/2) * cos(nf * M_PI) for nf = num/den
CosPi(num, den) == CosTable[(num * TaperSteps) \div den + 1]

\* taper that ignores falling
taper_rising_only(n, n_max, falling) ==
  TaperOne \div 2 - CosPi(n, n_max)

\* taper(n, n_max, falling) = 0.5*(1.0 - cos(nf*M_PI)), nf = n/n_max or
\* 1.0 - n/n_max
taper(n, n_max, falling) ==
  LET nf_num == IF falling THEN n_max - n ELSE n
  IN TaperOne \div 2 - CosPi(nf_num, n_max)

MorseCodes ==
  <<
   0, 0, 0, 0, 0, 0, 0, 0, 0, 0, 0, 0, 0, 0, 0, 0,
   0, 0, 0, 0, 0, 0, 0, 0, 0, 0, 0, 0, 0, 0, 0, 0,
   0, 6, 18, 9, 9, 12, 0, 30, 22, 45, 0, 10, 51, 33, 21, 18,
   31, 15, 7, 3, 1, 0, 16, 24, 28, 30, 56, 42, 0, 0, 0, 12,
   26, 1, 8, 10, 4, 0, 2, 6, 0, 0, 7, 5, 4, 3, 2, 7,
   6, 13, 2, 0, 1, 1, 1, 3, 9, 11, 12, 0, 0, 0, 0, 13,
   30, 1, 8, 10, 4, 0, 2, 6, 0, 0, 7, 5, 4, 3, 2, 7,
   6, 13, 2, 0, 1, 1, 1, 3, 9, 11, 12, 0, 0, 0, 21, 0>>

MorseLengths ==
  <<
   0, 0, 0, 0, 0, 0, 0, 0, 0, 0, 0, 0, 0, 0, 0, 0,
   0, 0, 0, 0, 0, 0, 0, 0, 0, 0, 0, 0, 0, 0, 0, 0,
   0, 5, 6, 5, 7, 5, 0, 6, 5, 6, 0, 5, 6, 6, 6, 5,
   5, 5, 5, 5, 5, 5, 5, 5, 5, 5, 6, 6, 0, 0, 0, 6,
   6, 2, 4, 4, 3, 1, 4, 3, 4, 2, 4, 3, 4, 2, 2, 3,
   4, 4, 3, 3, 1, 3, 4, 3, 4, 4, 4, 0, 0, 0, 0, 6,
   6, 2, 4, 4, 3, 1, 4, 3, 4, 2, 4, 3, 4, 2, 2, 3,
   4, 4, 3, 3, 1, 3, 4, 3, 4, 4, 4, 0, 0, 0, 5, 0>>

BufNames == {"steady", "ramp_up", "ramp_down", "silent"}

\* contents of a buffer whose words are all 0
AllZero == <<"zero", 0>>

\* ------------------------------------------------------------------- Init
\* Program start: statics are zero-initialised, no synth object exists yet.
InitSynth ==
  /\ pc = "boot"
  /\ frequency = 0 /\ dither_amplitude = 0 /\ amplitude = 0
  /\ hd3_amplitude = 0 /\ hd3_phase_rad = 0 /\ max_words_limit = 0
  /\ mode = 0 /\ n_words = 0 /\ n_periods = 0
  /\ needs_recalculation = FALSE
  /\ pio_program = "NULL" /\ rf_pindirs_out = FALSE
  /\ synth_dma = 0 /\ restart_dma = 0 /\ claimed = {}
  /\ synth_buffer = AllZero /\ synth_buffer_ramp_up = AllZero
  /\ synth_buffer_ramp_down = AllZero /\ synth_buffer_silent = AllZero
  /\ enable_transmit = FALSE /\ dma_state = 0
  /\ synth_en = FALSE /\ restart_en = FALSE
  /\ synth_busy = FALSE /\ restart_busy = FALSE
  /\ synth_read = "none" /\ restart_read = "none"
  /\ irq0_enabled = FALSE /\ irq_pending = FALSE
  /\ serial_last = "" /\ since_apply = "none" /\ calc_runs = 0
  /\ last_sel = "none" /\ edge = "none"
  /\ restarted = FALSE
  /\ req = "none" /\ req_age = 0 /\ req_hit = FALSE

\* ra_call before, during and after a call rational_approximation(tn/td, m)
RaCall(at, tn, td, m, s, passes) ==
  [at |-> at, tn |-> tn, td |-> td, maxdenom |-> m, s |-> s,
   passes |-> passes]

\* no call of rational_approximation on its own
IdleFarey == ra_call = RaCall("idle", 0, 1, 0, FareyInvalid(0), 0)

\* no fill routine running on its own
IdleFill == fill_call = [at |-> "idle"]

\* no call of taper on its own
IdleTaper == taper_call = [at |-> "idle"]

\* the Morse keyer is not running
IdleMorse == morse = [at |-> "idle"]

\* no configuration routine is running on its own
IdleConfig == cfg_call = [at |-> "idle"]

\* no command has been given; current_config.frequency is the frequency the
\* synth is constructed with
IdleCmd ==
  /\ config_frequency = 3579900
  /\ cmd_after = <<"none", 0>>
  /\ cmd_last = [cmd |-> "none", arg |-> 0, n |-> 0]

Init ==
  /\ InitSynth
  /\ IdleFarey
  /\ IdleFill
  /\ IdleTaper
  /\ IdleCmd
  /\ IdleMorse
  /\ IdleConfig

\* the decisions of the three quantisers (steady, ramp-up, ramp-down) a fill
\* routine can be given in mode m; fill_synth_buffer_compare has one quantiser
FillPatterns(m) ==
  IF m = 1 THEN {<<p, p, p>> : p \in BinaryPatterns}
  ELSE IF m \in {2, 4}
  THEN BinaryPatterns \X BinaryPatterns \X BinaryPatterns
  ELSE TrinaryPatterns \X TrinaryPatterns \X TrinaryPatterns

\* a fill routine is about to call taper for a slot of its buffer
InitTaper ==
  /\ InitSynth
  /\ IdleFarey
  /\ IdleFill
  /\ IdleCmd
  /\ IdleMorse
  /\ IdleConfig
  /\ \E i \in TaperInputs :
       taper_call = [at |-> "call", n |-> i[1], n_max |-> i[2],
                     falling |-> i[3], k |-> 0]

\* calculate_buffers is about to call the fill routine of the mode
InitFill ==
  /\ InitSynth
  /\ IdleFarey
  /\ IdleTaper
  /\ IdleCmd
  /\ IdleMorse
  /\ IdleConfig
  /\ \E m \in FillModeInputs, n \in FillWordsInputs, w \in StaleWords :
       \E p \in FillPatterns(m) :
         fill_call =
           [at |-> "call", mode |-> m, n_words |-> n, pat |-> p,
            ii |-> 0, jj |-> 0,
            word |-> {}, word_up |-> {}, word_down |-> {},
            last_equal |-> 0, last_equal_up |-> 0, last_equal_down |-> 0,
            steady |-> [i \in 0..(FillCap - 1) |-> w],
            ramp_up |-> [i \in 0..(FillCap - 1) |-> w],
            ramp_down |-> [i \in 0..(FillCap - 1) |-> w],
            silent |-> [i \in 0..(FillCap - 1) |-> {}],
            gen |-> <<<<>>, <<>>, <<>>>>]

\* the Morse keyer at the end of setup(): the statics hold their initial
\* values, the transmitter has been started, nothing has been keyed
MorseBoot ==
  [at |-> "boot",
   arg_code |-> 0, arg_len |-> 0, arg_wpm |-> 0, arg_str |-> <<>>,
   global_time |-> 0, polled |-> FALSE,
   msPerUnit |-> 120, msPerDot |-> 120, msPerDash |-> 360,
   msPiecePause |-> 120, msCharPause |-> 360, msWordPause |-> 840,
   wpm_arg |-> -1, wpm_eff |-> 10,
   l_state |-> 0, currentBit |-> 0, l_next |-> 0, stateBegin |-> 0,
   l_ret |-> 0,
   s_state |-> 0, charNo |-> 0, currentCode |-> 0, currentLen |-> 0,
   s_ret |-> 0,
   p_state |-> 0, p_next |-> 0, p_ret |-> 0,
   state1 |-> 0, state2 |-> 0, key_down |-> FALSE,
   wpm |-> 10, fox_string |-> <<77, 79>>, call |-> <<>>,
   transmitting |-> TRUE,
   calls |-> <<>>, durs |-> <<>>, gaps |-> <<>>, ones |-> 0,
   sent |-> <<>>, pauses |-> <<>>, cycle |-> <<>>, cycle_done |-> FALSE]

\* everything but the Morse keyer is at rest
MorseOnly ==
  /\ InitSynth
  /\ IdleFarey
  /\ IdleFill
  /\ IdleTaper
  /\ IdleCmd
  /\ IdleConfig

\* sendMorseLetter is about to be called repeatedly with the code and length
\* of a character, at a rate still to be set
InitLetter ==
  /\ MorseOnly
  /\ \E c \in LetterChars, w \in RateInputs :
       morse = [MorseBoot EXCEPT !.at = "rate_letter",
                                 !.arg_code = MorseCodes[c + 1],
                                 !.arg_len = MorseLengths[c + 1],
                                 !.arg_wpm = w]

\* sendMorseString is about to be called repeatedly with a string, at a rate
\* still to be set
InitString ==
  /\ MorseOnly
  /\ \E str \in StringInputs :
       morse = [MorseBoot EXCEPT !.at = "rate_string",
                                 !.arg_str = str, !.arg_wpm = 100]

\* loop() is about to be called repeatedly
InitLoop ==
  /\ MorseOnly
  /\ \E w \in WpmInputs, f \in FoxInputs, c \in CallInputs :
       morse = [MorseBoot EXCEPT !.at = "loop", !.wpm = w,
                                 !.fox_string = f, !.call = c]

\* loop() is about to be called repeatedly while keydown commands come in
InitKeyed ==
  /\ MorseOnly
  /\ morse = [MorseBoot EXCEPT !.at = "keyed", !.wpm = 50,
                               !.fox_string = <<65>>, !.call = <<>>]

\* current_config before setup() runs: static storage, all zero
ZeroConfig ==
  [frequency |-> 0, wpm |-> 0,
   fox_string |-> [i \in 1..(MAX_FOX_LEN + 1) |-> 0],
   call |-> [i \in 1..(MAX_CALL_LEN + 1) |-> 0],
   is_initialized_token |-> <<0, 0, 0, 0>>]

\* no configuration routine has been called yet
NoCall == [op |-> "none", arg |-> 0, pre |-> ZeroConfig, ret |-> 0]

\* setup() is about to load the configuration from an EEPROM holding any of
\* the stored values
InitConfig ==
  /\ InitSynth
  /\ IdleFarey
  /\ IdleFill
  /\ IdleTaper
  /\ IdleCmd
  /\ IdleMorse
  /\ \E f \in StoredFrequencies, w \in StoredWpm, fox \in StoredFox,
        c \in StoredCall, t \in StoredTokens :
       cfg_call =
         [at |-> "boot",
          eeprom |-> [frequency |-> f, wpm |-> w, fox_string |-> fox,
                      call |-> c, is_initialized_token |-> t],
          current_config |-> ZeroConfig,
          last |-> NoCall]

\* rational_approximation is about to be called with arguments drawn from
\* FareyInputs
InitFarey ==
  /\ InitSynth
  /\ \E i \in FareyInputs :
       ra_call = RaCall("call", i[1], i[2], i[3], FareyInvalid(0), 0)
  /\ IdleFill
  /\ IdleTaper
  /\ IdleCmd
  /\ IdleMorse
  /\ IdleConfig

\* rational_approximation is about to be called with a double target
InitDouble ==
  /\ InitSynth
  /\ \E i \in DoubleInputs :
       ra_call = [at |-> "double_call", tn |-> i[1], td |-> i[2],
                  target |-> DblTarget(i[1], i[2], i[3]), maxdenom |-> i[4],
                  s |-> DblFareyStart, passes |-> 0]
  /\ IdleFill
  /\ IdleTaper
  /\ IdleCmd
  /\ IdleMorse
  /\ IdleConfig

\* ----------------------------------------------------------- control path
\* The control path is at position p.  The completion interrupt may be taken
\* before or after any control-path step.
Ctl(p) == pc = p

Dirty == IF since_apply = "none" THEN "none" ELSE "dirty"

UNCHANGED_hist == UNCHANGED <<hist_sel, hist_stream, hist_req>>

\* synth::synth, field initialisation (called from start_transmitting)
synth_ctor(f) ==
  /\ Ctl("boot")
  /\ frequency' = f
  /\ dither_amplitude' = 1000
  /\ max_words_limit' = max_words
  /\ amplitude' = 1000
  /\ hd3_amplitude' = 45
  /\ hd3_phase_rad' = -611
  /\ mode' = 5
  /\ n_words' = max_words
  /\ needs_recalculation' = TRUE
  /\ pc' = "ctor_calc"
  /\ UNCHANGED <<serial_last, n_periods, pio, dma_ids, buffers, enable_transmit, dma_state,
                 dma_regs, hist_apply>>
  /\ UNCHANGED_hist
  /\ UNCHANGED aside

\* calculate_buffers, first half: the buffer length
calculate_buffers_lengths ==
  /\ pc \in {"ctor_calc", "as_calc"}
  /\ LET r == BufferLengths(frequency, max_words_limit)
     IN n_periods' = r.n_periods /\ n_words' = r.n_words
  /\ pc' = IF pc = "ctor_calc" THEN "ctor_fill" ELSE "as_fill"
  /\ serial_last' = "n_periods = "
  /\ UNCHANGED <<params, needs_recalculation, pio, dma_ids, buffers,
                 enable_transmit, dma_state, dma_regs, hist_apply>>
  /\ UNCHANGED_hist
  /\ UNCHANGED aside

\* fill_synth_buffer_silent
fill_synth_buffer_silent == synth_buffer_silent' = AllZero

\* fill_synth_buffer_compare: q is the dither draw
fill_synth_buffer_compare(q) ==
  /\ fill_synth_buffer_silent
  /\ synth_buffer' = <<"tone", q>>
  /\ synth_buffer_ramp_up' = <<"tone", q>>
  /\ synth_buffer_ramp_down' = AllZero

\* fill_synth_buffer_sigma_delta and fill_synth_buffer_sigma_delta_3s store
\* their three quantiser streams alike
fill_synth_buffer_sigma_delta(q) ==
  /\ fill_synth_buffer_silent
  /\ synth_buffer' = <<"tone", q>>
  /\ IF mode >= 4
     THEN /\ synth_buffer_ramp_up' = <<"tone_up", q>>
          /\ synth_buffer_ramp_down' = <<"tone_down", q>>
     ELSE /\ synth_buffer_ramp_up' = <<"tone", q>>
          /\ synth_buffer_ramp_down' = AllZero

\* calculate_buffers, second half: the fill routine of the mode writes the
\* buffers and the dirty flag is cleared
calculate_buffers_fill(q) ==
  /\ pc \in {"ctor_fill", "as_fill"}
  /\ IF mode = 1
     THEN fill_synth_buffer_compare(q)
     ELSE fill_synth_buffer_sigma_delta(q)
  /\ needs_recalculation' = FALSE
  /\ calc_runs' = calc_runs + 1
  /\ pc' = IF pc = "ctor_fill" THEN "ctor_pio" ELSE "as_dma"
  /\ UNCHANGED <<params, lengths, pio, dma_ids, enable_transmit, dma_state,
                 dma_regs, serial_last, since_apply>>
  /\ UNCHANGED_hist
  /\ UNCHANGED aside

\* add_pio_program(&pio_serialiser_program) and its init, in the constructor
ctor_add_pio_program ==
  /\ Ctl("ctor_pio")
  /\ pio_program' = "serialiser"
  /\ rf_pindirs_out' = TRUE
  /\ pc' = "ctor_dma"
  /\ UNCHANGED <<params, lengths, needs_recalculation, dma_ids, buffers,
                 enable_transmit, dma_state, dma_regs, serial_last, hist_apply>>
  /\ UNCHANGED_hist
  /\ UNCHANGED aside

\* dma_claim_unused_channel: the lowest unclaimed channel
LowestFree(S) ==
  CHOOSE ch \in 0..Cardinality(S) :
     ch \notin S /\ \A c2 \in 0..Cardinality(S) : c2 < ch => c2 \in S

\* synth::setup_dma: claim and configure both channels, start the restart one
setup_dma ==
  /\ pc \in {"ctor_dma", "as_dma"}
  /\ LET s == LowestFree(claimed)
         r == LowestFree(claimed \cup {s})
     IN /\ synth_dma' = s
        /\ restart_dma' = r
        /\ claimed' = claimed \cup {s, r}
  /\ synth_en' = TRUE
  /\ synth_read' = "steady"
  /\ synth_busy' = FALSE
  /\ restart_en' = TRUE
  /\ irq0_enabled' = TRUE
  /\ restart_read' = "ramp_up"
  /\ restart_busy' = TRUE
  /\ irq_pending' = irq_pending
  /\ pc' = IF pc = "ctor_dma" THEN "idle" ELSE "as_done"
  /\ calc_runs' = IF pc = "ctor_dma" THEN 0 ELSE calc_runs
  /\ restarted' = TRUE
  /\ UNCHANGED <<params, lengths, needs_recalculation, pio, buffers,
                 enable_transmit, dma_state, serial_last, since_apply,
                 hist_sel, hist_req>>
  /\ UNCHANGED aside

\* ---------------------------------------------------------------- setters
SetterFrame ==
  /\ needs_recalculation' = TRUE
  /\ since_apply' = Dirty
  /\ UNCHANGED <<pc, lengths, pio, dma_ids, buffers, enable_transmit,
                 dma_state, dma_regs, calc_runs, serial_last>>
  /\ UNCHANGED_hist

set_frequency(f) ==
  /\ Ctl("idle")
  /\ frequency' = f
  /\ SetterFrame
  /\ UNCHANGED <<dither_amplitude, amplitude, hd3_amplitude, hd3_phase_rad,
                 max_words_limit, mode>>
  /\ UNCHANGED aside

set_dither_amplitude(a) ==
  /\ Ctl("idle")
  /\ dither_amplitude' = a
  /\ SetterFrame
  /\ UNCHANGED <<frequency, amplitude, hd3_amplitude, hd3_phase_rad,
                 max_words_limit, mode>>
  /\ UNCHANGED aside

\* set_amplitude that forgets to mark the parameters dirty
set_amplitude_noflag(a) ==
  /\ Ctl("idle")
  /\ amplitude' = a
  /\ UNCHANGED <<pc, lengths, pio, dma_ids, buffers, enable_transmit,
                 dma_state, dma_regs, hist_apply, serial_last,
                 needs_recalculation>>
  /\ UNCHANGED_hist
  /\ UNCHANGED <<frequency, dither_amplitude, hd3_amplitude, hd3_phase_rad,
                 max_words_limit, mode>>
  /\ UNCHANGED aside

set_amplitude(a) ==
  /\ Ctl("idle")
  /\ amplitude' = a
  /\ SetterFrame
  /\ UNCHANGED <<frequency, dither_amplitude, hd3_amplitude, hd3_phase_rad,
                 max_words_limit, mode>>
  /\ UNCHANGED aside

set_hd3_amplitude(a) ==
  /\ Ctl("idle")
  /\ hd3_amplitude' = a
  /\ SetterFrame
  /\ UNCHANGED <<frequency, dither_amplitude, amplitude, hd3_phase_rad,
                 max_words_limit, mode>>
  /\ UNCHANGED aside

set_hd3_phase(p) ==
  /\ Ctl("idle")
  /\ hd3_phase_rad' = p
  /\ SetterFrame
  /\ UNCHANGED <<frequency, dither_amplitude, amplitude, hd3_amplitude,
                 max_words_limit, mode>>
  /\ UNCHANGED aside

\* set_max_words that clamps its argument into 2..10000
set_max_words_clamped(m) ==
  /\ Ctl("idle")
  /\ max_words_limit' = IF m > 10000 THEN 10000 ELSE IF m < 2 THEN 2 ELSE m
  /\ SetterFrame
  /\ UNCHANGED <<frequency, dither_amplitude, amplitude, hd3_amplitude,
                 hd3_phase_rad, mode>>
  /\ UNCHANGED aside

set_max_words(m) ==
  /\ Ctl("idle")
  /\ max_words_limit' = m
  /\ SetterFrame
  /\ UNCHANGED <<frequency, dither_amplitude, amplitude, hd3_amplitude,
                 hd3_phase_rad, mode>>
  /\ UNCHANGED aside

\* set_mode with an off-by-one upper limit
set_mode_offbyone(m) ==
  /\ Ctl("idle")
  /\ IF m >= 0 /\ m <= 6
     THEN /\ mode' = m
          /\ SetterFrame
          /\ UNCHANGED <<frequency, dither_amplitude, amplitude,
                         hd3_amplitude, hd3_phase_rad, max_words_limit>>
     ELSE /\ serial_last' = "Attempted to set invalid mode"
          /\ UNCHANGED <<pc, params, lengths, needs_recalculation, pio,
                         dma_ids, buffers, enable_transmit, dma_state,
                         dma_regs, hist_apply>>
          /\ UNCHANGED_hist
  /\ UNCHANGED aside

set_mode(m) ==
  /\ Ctl("idle")
  /\ IF m >= 0 /\ m <= 5
     THEN /\ mode' = m
          /\ SetterFrame
          /\ UNCHANGED <<frequency, dither_amplitude, amplitude,
                         hd3_amplitude, hd3_phase_rad, max_words_limit>>
     ELSE /\ serial_last' = "Attempted to set invalid mode"
          /\ UNCHANGED <<pc, params, lengths, needs_recalculation, pio,
                         dma_ids, buffers, enable_transmit, dma_state,
                         dma_regs, hist_apply>>
          /\ UNCHANGED_hist
  /\ UNCHANGED aside

\* ------------------------------------------------------------------ keying
\* A keying request is put under observation when it is made while the
\* scheduler is in the opposite state and a buffer is streaming.
Observe(kind, st) ==
  IF req = kind THEN UNCHANGED hist_req
  ELSE IF dma_state = st /\ synth_busy /\ synth_en
  THEN req' = kind /\ req_age' = 0 /\ req_hit' = FALSE
  ELSE req' = "none" /\ req_age' = 0 /\ req_hit' = FALSE

\* enable_output that moves the playback state itself
enable_output_writes_state ==
  /\ Ctl("idle")
  /\ rf_pindirs_out' = IF ~enable_transmit /\ mode = 0 THEN TRUE
                       ELSE rf_pindirs_out
  /\ enable_transmit' = TRUE
  /\ dma_state' = 1
  /\ Observe("ramp_up", 0)
  /\ edge' = IF ~enable_transmit THEN "rise" ELSE edge
  /\ UNCHANGED <<pc, params, lengths, needs_recalculation, pio_program,
                 dma_ids, buffers, dma_regs, hist_apply, last_sel,
                 hist_stream, serial_last>>
  /\ UNCHANGED aside

enable_output ==
  /\ Ctl("idle")
  /\ rf_pindirs_out' = IF ~enable_transmit /\ mode = 0 THEN TRUE
                       ELSE rf_pindirs_out
  /\ enable_transmit' = TRUE
  /\ Observe("ramp_up", 0)
  /\ edge' = IF ~enable_transmit THEN "rise" ELSE edge
  /\ UNCHANGED <<pc, params, lengths, needs_recalculation, pio_program,
                 dma_ids, buffers, dma_state, dma_regs, hist_apply, last_sel,
                 hist_stream, serial_last>>
  /\ UNCHANGED aside

disable_output ==
  /\ Ctl("idle")
  /\ rf_pindirs_out' = IF enable_transmit /\ mode = 0 THEN FALSE
                       ELSE rf_pindirs_out
  /\ enable_transmit' = FALSE
  /\ Observe("ramp_down", 1)
  /\ edge' = IF enable_transmit THEN "fall" ELSE edge
  /\ UNCHANGED <<pc, params, lengths, needs_recalculation, pio_program,
                 dma_ids, buffers, dma_state, dma_regs, hist_apply, last_sel,
                 hist_stream, serial_last>>
  /\ UNCHANGED aside

\* ---------------------------------------------------------- apply_settings
\* apply_settings that goes on to the PIO program without stopping the DMAs
apply_settings_nostop ==
  /\ pc \in {"idle", "cmd_apply"}
  /\ pc' = IF ~needs_recalculation THEN "idle" ELSE "as_pio"
  /\ UNCHANGED <<params, lengths, needs_recalculation, pio, dma_ids, buffers,
                 enable_transmit, dma_state, dma_regs, hist_apply,
                 serial_last>>
  /\ UNCHANGED_hist
  /\ UNCHANGED aside

\* entry: return at once when nothing is dirty, else stop the DMAs if valid
apply_settings ==
  /\ pc \in {"idle", "cmd_apply"}
  /\ IF ~needs_recalculation
     THEN /\ pc' = "idle"
          /\ UNCHANGED serial_last
     ELSE /\ pc' = IF synth_dma < 1000 THEN "as_clear_synth" ELSE "as_pio"
          /\ serial_last' = IF synth_dma < 1000
                            THEN "Waiting for DMAs to stop..."
                            ELSE serial_last
  /\ UNCHANGED <<params, lengths, needs_recalculation, pio, dma_ids, buffers,
                 enable_transmit, dma_state, dma_regs, hist_apply>>
  /\ UNCHANGED_hist
  /\ UNCHANGED aside

\* hw_clear_bits(&dma_hw->ch[synth_dma].al1_ctrl, EN)
as_clear_synth_en ==
  /\ Ctl("as_clear_synth")
  /\ synth_en' = FALSE
  /\ pc' = "as_clear_restart"
  /\ req' = "none" /\ req_age' = 0 /\ req_hit' = FALSE
  /\ UNCHANGED <<params, lengths, needs_recalculation, pio, dma_ids, buffers,
                 enable_transmit, dma_state, restart_en, synth_busy,
                 restart_busy, synth_read, restart_read, irq0_enabled,
                 irq_pending, serial_last, hist_apply, hist_sel, hist_stream>>
  /\ UNCHANGED aside

\* hw_clear_bits(&dma_hw->ch[restart_dma].al1_ctrl, EN)
as_clear_restart_en ==
  /\ Ctl("as_clear_restart")
  /\ restart_en' = FALSE
  /\ pc' = "as_abort"
  /\ UNCHANGED <<params, lengths, needs_recalculation, pio, dma_ids, buffers,
                 enable_transmit, dma_state, synth_en, synth_busy,
                 restart_busy, synth_read, restart_read, irq0_enabled,
                 irq_pending, serial_last, hist_apply>>
  /\ UNCHANGED_hist
  /\ UNCHANGED aside

\* body of the do-while: abort both channels.
\* An abort may leave its channel busy (ok_s, ok_r: the abort took effect).
as_abort(ok_s, ok_r) ==
  /\ Ctl("as_abort")
  /\ synth_busy' = (synth_busy /\ ~ok_s)
  /\ restart_busy' = (restart_busy /\ ~ok_r)
  /\ pc' = "as_busy"
  /\ UNCHANGED <<params, lengths, needs_recalculation, pio, dma_ids, buffers,
                 enable_transmit, dma_state, synth_en, restart_en, synth_read,
                 restart_read, irq0_enabled, irq_pending, serial_last, hist_apply>>
  /\ UNCHANGED_hist
  /\ UNCHANGED aside

\* condition of the do-while: repeat while either channel is busy
as_busy_test ==
  /\ Ctl("as_busy")
  /\ pc' = IF synth_busy \/ restart_busy THEN "as_abort" ELSE "as_unclaim"
  /\ UNCHANGED <<params, lengths, needs_recalculation, pio, dma_ids, buffers,
                 enable_transmit, dma_state, dma_regs, serial_last,
                 hist_apply>>
  /\ UNCHANGED_hist
  /\ UNCHANGED aside

\* synth::unclaim_dma: dma_channel_cleanup and dma_channel_unclaim of both
unclaim_dma ==
  /\ Ctl("as_unclaim")
  /\ synth_en' = FALSE /\ restart_en' = FALSE
  /\ synth_busy' = FALSE /\ restart_busy' = FALSE
  /\ irq0_enabled' = FALSE /\ irq_pending' = FALSE
  /\ claimed' = claimed \ {synth_dma, restart_dma}
  /\ synth_dma' = INVALID_DMA
  /\ restart_dma' = INVALID_DMA
  /\ pc' = "as_pio"
  /\ UNCHANGED <<params, lengths, needs_recalculation, pio, buffers,
                 enable_transmit, dma_state, synth_read, restart_read,
                 serial_last, hist_apply>>
  /\ UNCHANGED_hist
  /\ UNCHANGED aside

\* remove_pio_program that leaves the program loaded and the state machine
\* claimed
remove_pio_program_kept ==
  /\ Ctl("as_pio")
  /\ pc' = "as_add"
  /\ UNCHANGED <<params, lengths, needs_recalculation, pio,
                 dma_ids, buffers, enable_transmit, dma_state, dma_regs,
                 serial_last, hist_apply>>
  /\ UNCHANGED_hist
  /\ UNCHANGED aside

\* synth::remove_pio_program
remove_pio_program ==
  /\ Ctl("as_pio")
  /\ pio_program' = "NULL"
  /\ pc' = "as_add"
  /\ UNCHANGED <<params, lengths, needs_recalculation, rf_pindirs_out,
                 dma_ids, buffers, enable_transmit, dma_state, dma_regs,
                 serial_last, hist_apply>>
  /\ UNCHANGED_hist
  /\ UNCHANGED aside

\* add_pio_program and the init function of the program of the mode
add_pio_program ==
  /\ Ctl("as_add")
  /\ pio_program' = IF mode = 0 THEN "toggle" ELSE "serialiser"
  /\ rf_pindirs_out' = TRUE
  /\ pc' = IF mode = 0 THEN "as_done" ELSE "as_calc"
  /\ serial_last' = IF mode = 0 THEN serial_last ELSE "Adding PIO program..."
  /\ UNCHANGED <<params, lengths, needs_recalculation, dma_ids, buffers,
                 enable_transmit, dma_state, dma_regs, hist_apply>>
  /\ UNCHANGED_hist
  /\ UNCHANGED aside

\* PrintStatus2() and return
apply_settings_return ==
  /\ Ctl("as_done")
  /\ pc' = "idle"
  /\ since_apply' = "clean"
  /\ calc_runs' = 0
  /\ serial_last' = "Mode: "
  /\ UNCHANGED <<params, lengths, needs_recalculation, pio, dma_ids, buffers,
                 enable_transmit, dma_state, dma_regs>>
  /\ UNCHANGED_hist
  /\ UNCHANGED aside

\* CmdDefault: five setters, then apply_settings
CmdDefault ==
  /\ Ctl("idle")
  /\ dither_amplitude' = 1000
  /\ amplitude' = 1000
  /\ frequency' = 3579900
  /\ mode' = 5
  /\ max_words_limit' = max_words
  /\ needs_recalculation' = TRUE
  /\ since_apply' = Dirty
  /\ pc' = "cmd_apply"
  /\ UNCHANGED <<hd3_amplitude, hd3_phase_rad, lengths, pio, dma_ids, buffers,
                 enable_transmit, dma_state, dma_regs, calc_runs, serial_last>>
  /\ UNCHANGED_hist
  /\ UNCHANGED aside

\* ---------------------------------------------------------- serial commands
\* Str2Num on an argument given in tenths: strtol reads the sign and the
\* digits before the decimal point
Str2Num(t) == IF t >= 0 THEN t \div 10 ELSE -((-t) \div 10)

\* Str2Double on an argument: strtod reads the whole number
Str2Double(a) == a

\* v*M_PI/180 in thousandths of a radian
DegToRad(v) == (v * 31416) \div 1800

\* a command is taken when the control path is between two calls and the
\* previous command has returned
CmdReady == Ctl("idle") /\ cmd_after[1] = "none"

\* the command and its argument are noted
CmdNoted(name, a) ==
  cmd_last' = [cmd |-> name, arg |-> a, n |-> 1 - cmd_last.n]

\* the command prints msg and returns
CmdReject(msg) ==
  /\ serial_last' = msg
  /\ UNCHANGED <<pc, params, lengths, needs_recalculation, pio, dma_ids,
                 buffers, enable_transmit, dma_state, dma_regs, hist_apply>>
  /\ UNCHANGED_hist
  /\ UNCHANGED <<config_frequency, cmd_after>>

\* the setter has marked the parameters dirty and apply_settings is called
CmdApply ==
  /\ needs_recalculation' = TRUE
  /\ since_apply' = Dirty
  /\ pc' = "cmd_apply"
  /\ UNCHANGED <<lengths, pio, dma_ids, buffers, enable_transmit, dma_state,
                 dma_regs, calc_runs, serial_last>>
  /\ UNCHANGED_hist
  /\ UNCHANGED config_frequency

CmdDither(a) ==
  /\ CmdReady /\ CmdNoted("dither", a)
  /\ LET v == Str2Double(a)
     IN IF v >= 0 /\ v <= 3000
        THEN /\ dither_amplitude' = v
             /\ CmdApply
             /\ UNCHANGED <<frequency, amplitude, hd3_amplitude,
                            hd3_phase_rad, max_words_limit, mode, cmd_after>>
        ELSE CmdReject("Invalid dither value")
  /\ UNCHANGED calls

CmdAmpl(a) ==
  /\ CmdReady /\ CmdNoted("ampl", a)
  /\ LET v == Str2Double(a)
     IN IF v >= 0 /\ v <= 2000
        THEN /\ amplitude' = v
             /\ CmdApply
             /\ UNCHANGED <<frequency, dither_amplitude, hd3_amplitude,
                            hd3_phase_rad, max_words_limit, mode, cmd_after>>
        ELSE CmdReject("Invalid amplitude value")
  /\ UNCHANGED calls

CmdAmplHD3(a) ==
  /\ CmdReady /\ CmdNoted("ampl3", a)
  /\ LET v == Str2Double(a)
     IN IF v >= -500 /\ v <= 500
        THEN /\ hd3_amplitude' = v
             /\ CmdApply
             /\ UNCHANGED <<frequency, dither_amplitude, amplitude,
                            hd3_phase_rad, max_words_limit, mode, cmd_after>>
        ELSE CmdReject("Invalid HD3 amplitude value")
  /\ UNCHANGED calls

CmdPhaseHD3(a) ==
  /\ CmdReady /\ CmdNoted("ph3", a)
  /\ LET v == Str2Double(a)
     IN IF v >= -400 /\ v <= 400
        THEN /\ hd3_phase_rad' = DegToRad(v)
             /\ CmdApply
             /\ UNCHANGED <<frequency, dither_amplitude, amplitude,
                            hd3_amplitude, max_words_limit, mode, cmd_after>>
        ELSE CmdReject("Invalid HD3 amplitude value")
  /\ UNCHANGED calls

\* CmdFreq up to the call of apply_settings
CmdFreq(a) ==
  /\ CmdReady /\ CmdNoted("freq", a)
  /\ LET v == Str2Double(a)
     IN IF v >= 100000 /\ v <= 20000000
        THEN /\ frequency' = v
             /\ CmdApply
             /\ cmd_after' = <<"freq", v>>
             /\ UNCHANGED <<dither_amplitude, amplitude, hd3_amplitude,
                            hd3_phase_rad, max_words_limit, mode>>
        ELSE CmdReject("Invalid frequency value")
  /\ UNCHANGED calls

\* CmdFreq after apply_settings has returned: current_config.frequency = v
CmdFreq_store ==
  /\ Ctl("idle") /\ cmd_after[1] = "freq"
  /\ config_frequency' = cmd_after[2]
  /\ cmd_after' = <<"none", 0>>
  /\ UNCHANGED <<synth_vars, cmd_last, calls>>

\* CmdMode that lets -1 through
CmdMode_loose(a) ==
  /\ CmdReady /\ CmdNoted("mode", a)
  /\ LET m == Str2Num(a)
     IN IF m >= -1 /\ m <= 5
        THEN /\ mode' = m
             /\ CmdApply
             /\ UNCHANGED <<frequency, dither_amplitude, amplitude,
                            hd3_amplitude, hd3_phase_rad, max_words_limit,
                            cmd_after>>
        ELSE CmdReject("Mode must be between 0 and 5")
  /\ UNCHANGED calls

CmdMode(a) ==
  /\ CmdReady /\ CmdNoted("mode", a)
  /\ LET m == Str2Num(a)
     IN IF m > 5 \/ m < 0
        THEN CmdReject("Mode must be between 0 and 5")
        ELSE /\ mode' = m
             /\ CmdApply
             /\ UNCHANGED <<frequency, dither_amplitude, amplitude,
                            hd3_amplitude, hd3_phase_rad, max_words_limit,
                            cmd_after>>
  /\ UNCHANGED calls

CmdBufsize(a) ==
  /\ CmdReady /\ CmdNoted("bufsize", a)
  /\ LET v == Str2Num(a)
     IN IF v > 10000 \/ v < 2
        THEN CmdReject("Bufsize must be between 2 and 10000")
        ELSE /\ max_words_limit' = v
             /\ CmdApply
             /\ UNCHANGED <<frequency, dither_amplitude, amplitude,
                            hd3_amplitude, hd3_phase_rad, mode, cmd_after>>
  /\ UNCHANGED calls

\* ---------------------------------------------------------------- hardware
PointerTarget(p) == IF p \in BufNames THEN p ELSE "garbage"

\* The data channel has streamed its n_words words: it goes idle and its
\* CHAIN_TO triggers the restart channel.  The handler of the previous
\* completion has long returned (one buffer lasts about a millisecond).
SynthDmaComplete ==
  /\ synth_busy /\ synth_en /\ ~irq_pending
  /\ synth_busy' = FALSE
  /\ restart_busy' = restart_en
  /\ UNCHANGED <<pc, params, lengths, needs_recalculation, pio, dma_ids,
                 buffers, enable_transmit, dma_state, synth_en, restart_en,
                 synth_read, restart_read, irq0_enabled, irq_pending, serial_last,
                 hist_apply>>
  /\ UNCHANGED_hist
  /\ UNCHANGED aside

\* The restart channel copies one pointer into the data channel's
\* READ_ADDR_TRIG (which starts the data channel when it is enabled), its
\* read address increments past the pointer, and its completion raises IRQ0.
RestartDmaTransfer ==
  /\ restart_busy /\ restart_en
  /\ synth_read' = PointerTarget(restart_read)
  /\ synth_busy' = synth_en
  /\ restart_busy' = FALSE
  /\ restart_read' = "past"
  /\ irq_pending' = irq0_enabled
  /\ IF synth_en
     THEN /\ restarted' = FALSE
          /\ IF req = "none" \/ req_age >= 2
             THEN req' = "none" /\ req_age' = 0 /\ req_hit' = FALSE
             ELSE /\ req' = req
                  /\ req_age' = req_age + 1
                  /\ req_hit' = (req_hit \/ synth_read' = req)
     ELSE UNCHANGED <<hist_stream, hist_req>>
  /\ UNCHANGED <<pc, params, lengths, needs_recalculation, pio, dma_ids,
                 buffers, enable_transmit, dma_state, synth_en, restart_en,
                 irq0_enabled, serial_last, hist_apply, hist_sel>>
  /\ UNCHANGED aside

\* ------------------------------------------------------- interrupt handler
\* the handler with the steady and ramp-up buffers exchanged
dma_irq_handler_swapped ==
  /\ irq_pending
  /\ irq_pending' = FALSE
  /\ IF ~restart_busy
     THEN IF enable_transmit
          THEN IF dma_state = 1
               THEN restart_read' = "ramp_up" /\ dma_state' = dma_state
               ELSE IF dma_state = 0
               THEN restart_read' = "steady" /\ dma_state' = 1
               ELSE UNCHANGED <<restart_read, dma_state>>
          ELSE IF dma_state = 0
               THEN restart_read' = "silent" /\ dma_state' = dma_state
               ELSE IF dma_state = 1
               THEN restart_read' = "ramp_down" /\ dma_state' = 0
               ELSE UNCHANGED <<restart_read, dma_state>>
     ELSE UNCHANGED <<restart_read, dma_state>>
  /\ last_sel' = IF restart_read' = restart_read THEN "kept" ELSE restart_read'
  /\ edge' = "none"
  /\ UNCHANGED <<pc, params, lengths, needs_recalculation, pio, dma_ids,
                 buffers, enable_transmit, synth_en, restart_en, synth_busy,
                 restart_busy, synth_read, irq0_enabled, serial_last, hist_apply,
                 hist_stream, hist_req>>
  /\ UNCHANGED aside

\* the handler that forgets to enter Transmitting after the ramp-up
dma_irq_handler_nostate ==
  /\ irq_pending
  /\ irq_pending' = FALSE
  /\ IF ~restart_busy
     THEN IF enable_transmit
          THEN IF dma_state = 1
               THEN restart_read' = "steady" /\ dma_state' = dma_state
               ELSE IF dma_state = 0
               THEN restart_read' = "ramp_up" /\ dma_state' = dma_state
               ELSE UNCHANGED <<restart_read, dma_state>>
          ELSE IF dma_state = 0
               THEN restart_read' = "silent" /\ dma_state' = dma_state
               ELSE IF dma_state = 1
               THEN restart_read' = "ramp_down" /\ dma_state' = 0
               ELSE UNCHANGED <<restart_read, dma_state>>
     ELSE UNCHANGED <<restart_read, dma_state>>
  /\ last_sel' = IF restart_read' = restart_read THEN "kept" ELSE restart_read'
  /\ edge' = "none"
  /\ UNCHANGED <<pc, params, lengths, needs_recalculation, pio, dma_ids,
                 buffers, enable_transmit, synth_en, restart_en, synth_busy,
                 restart_busy, synth_read, irq0_enabled, serial_last, hist_apply,
                 hist_stream, hist_req>>
  /\ UNCHANGED aside

dma_irq_handler ==
  /\ irq_pending
  /\ irq_pending' = FALSE
  /\ IF ~restart_busy
     THEN IF enable_transmit
          THEN IF dma_state = 1
               THEN restart_read' = "steady" /\ dma_state' = dma_state
               ELSE IF dma_state = 0
               THEN restart_read' = "ramp_up" /\ dma_state' = 1
               ELSE UNCHANGED <<restart_read, dma_state>>
          ELSE IF dma_state = 0
               THEN restart_read' = "silent" /\ dma_state' = dma_state
               ELSE IF dma_state = 1
               THEN restart_read' = "ramp_down" /\ dma_state' = 0
               ELSE UNCHANGED <<restart_read, dma_state>>
     ELSE UNCHANGED <<restart_read, dma_state>>
  /\ last_sel' = IF restart_read' = restart_read THEN "kept" ELSE restart_read'
  /\ edge' = "none"
  /\ UNCHANGED <<pc, params, lengths, needs_recalculation, pio, dma_ids,
                 buffers, enable_transmit, synth_en, restart_en, synth_busy,
                 restart_busy, synth_read, irq0_enabled, serial_last, hist_apply,
                 hist_stream, hist_req>>
  /\ UNCHANGED aside

\* --------------------------------------- rational_approximation, stepwise
\* entry of rational_approximation: the range checks on target and maxdenom
\* and the initialisation of the loop variables
rational_approximation_entry ==
  /\ ra_call.at = "call"
  /\ ra_call' =
       IF ra_call.tn > ra_call.td
       THEN [ra_call EXCEPT !.at = "ret", !.s = FareyInvalid(1)]
       ELSE IF ra_call.tn < 0
       THEN [ra_call EXCEPT !.at = "ret", !.s = FareyInvalid(0)]
       ELSE [ra_call EXCEPT !.at = "loop",
                            !.s = FareyStart(ra_call.tn, ra_call.td)]
  /\ UNCHANGED not_farey

\* one pass of while(1); the pass that breaks also returns
rational_approximation_pass ==
  /\ ra_call.at = "loop"
  /\ LET s == FareyPass(ra_call.td, ClampDenom(Uint32(ra_call.maxdenom)),
                        ra_call.s)
     IN ra_call' = [ra_call EXCEPT !.at = IF s.done THEN "ret" ELSE "loop",
                                   !.s = s,
                                   !.passes = ra_call.passes + 1]
  /\ UNCHANGED not_farey

\* entry of rational_approximation, target a double: the range checks on
\* target and maxdenom
rational_approximation_entry_double ==
  /\ ra_call.at = "double_call"
  /\ ra_call' =
       IF DblLess(DblOf(1), ra_call.target)
       THEN [ra_call EXCEPT !.at = "double_ret", !.s = DblFareyInvalid(1)]
       ELSE IF DblNegative(ra_call.target)
       THEN [ra_call EXCEPT !.at = "double_ret", !.s = DblFareyInvalid(0)]
       ELSE [ra_call EXCEPT !.at = "double_loop",
                            !.maxdenom = IF @ < 1 THEN 1 ELSE @]
  /\ UNCHANGED not_farey

\* one pass of while(1), target a double; the pass that breaks also returns
rational_approximation_pass_double ==
  /\ ra_call.at = "double_loop"
  /\ LET s == DblFareyPass(ra_call.target, ra_call.maxdenom, ra_call.s)
     IN ra_call' = [ra_call EXCEPT
                      !.at = IF s.done THEN "double_ret" ELSE "double_loop",
                      !.s = s,
                      !.passes = ra_call.passes + 1]
  /\ UNCHANGED not_farey

\* ------------------------------------------- the fill routines, word by word
\* A 32-bit word is the set of its set bit positions.
\* the decision of a quantiser at slot t of its stream
Dec(p, t) == p[(t % Len(p)) + 1]

\* a two-level quantiser slot with the two bits of the pair exchanged
BinSlot_swapped(dec, w, jj) ==
  IF dec = "+" THEN w \cup {2 * jj + 1} ELSE w \cup {2 * jj}

\* one slot of a two-level quantiser: word |= 1<<(2*jj) or 1<<(2*jj+1)
BinSlot(dec, w, jj) ==
  IF dec = "+" THEN w \cup {2 * jj} ELSE w \cup {2 * jj + 1}

\* one slot of a three-level quantiser with its parity flag le
TriSlot(dec, w, le, jj) ==
  IF dec = "+" THEN [w |-> w \cup {2 * jj}, le |-> le]
  ELSE IF dec = "0"
  THEN IF le = 0
       THEN [w |-> w \cup {2 * jj, 2 * jj + 1}, le |-> 1]
       ELSE [w |-> w, le |-> 0]
  ELSE [w |-> w \cup {2 * jj + 1}, le |-> le]

\* entry of a fill routine: fill_synth_buffer_silent, the initialisation of
\* the locals and the first test of the loop over the words
fill_entry ==
  /\ fill_call.at = "call"
  /\ fill_call' =
       [fill_call EXCEPT
          !.silent = [i \in 0..(FillCap - 1) |-> {}],
          !.last_equal = 1, !.last_equal_up = 1, !.last_equal_down = 1,
          !.ii = 0, !.jj = 0,
          !.word = {}, !.word_up = {}, !.word_down = {},
          !.at = IF 0 < fill_call.n_words THEN "slot" ELSE "done"]
  /\ UNCHANGED not_fill

\* where the loop over the 16 slots goes after slot jj
AfterSlot(jj) == IF jj + 1 < 16 THEN "slot" ELSE "store"

\* fill_synth_buffer_compare, one pass of the loop over jj
compare_slot ==
  /\ fill_call.at = "slot" /\ fill_call.mode = 1
  /\ LET jj == fill_call.jj
         t == fill_call.ii * 16 + jj
     IN fill_call' =
          [fill_call EXCEPT
             !.word = BinSlot(Dec(fill_call.pat[1], t), fill_call.word, jj),
             !.jj = jj + 1,
             !.at = AfterSlot(jj)]
  /\ UNCHANGED not_fill

\* fill_synth_buffer_sigma_delta, one pass of the loop over jj
sigma_delta_slot ==
  /\ fill_call.at = "slot" /\ fill_call.mode \in {2, 4}
  /\ LET jj == fill_call.jj
         t == fill_call.ii * 16 + jj
     IN fill_call' =
          [fill_call EXCEPT
             !.word = BinSlot(Dec(fill_call.pat[1], t), fill_call.word, jj),
             !.word_up =
                BinSlot(Dec(fill_call.pat[2], t), fill_call.word_up, jj),
             !.word_down =
                BinSlot(Dec(fill_call.pat[3], t), fill_call.word_down, jj),
             !.jj = jj + 1,
             !.at = AfterSlot(jj)]
  /\ UNCHANGED not_fill

\* fill_synth_buffer_sigma_delta_3s with one parity flag for all three streams
sigma_delta_3s_slot_shared_flag ==
  /\ fill_call.at = "slot" /\ fill_call.mode \notin {1, 2, 4}
  /\ LET jj == fill_call.jj
         t == fill_call.ii * 16 + jj
         s == TriSlot(Dec(fill_call.pat[1], t), fill_call.word,
                      fill_call.last_equal, jj)
         u == TriSlot(Dec(fill_call.pat[2], t), fill_call.word_up,
                      s.le, jj)
         d == TriSlot(Dec(fill_call.pat[3], t), fill_call.word_down,
                      u.le, jj)
     IN fill_call' =
          [fill_call EXCEPT
             !.word = s.w, !.last_equal = d.le,
             !.word_up = u.w, !.word_down = d.w,
             !.jj = jj + 1,
             !.at = AfterSlot(jj)]
  /\ UNCHANGED not_fill

\* fill_synth_buffer_sigma_delta_3s, one pass of the loop over jj
sigma_delta_3s_slot ==
  /\ fill_call.at = "slot" /\ fill_call.mode \notin {1, 2, 4}
  /\ LET jj == fill_call.jj
         t == fill_call.ii * 16 + jj
         s == TriSlot(Dec(fill_call.pat[1], t), fill_call.word,
                      fill_call.last_equal, jj)
         u == TriSlot(Dec(fill_call.pat[2], t), fill_call.word_up,
                      fill_call.last_equal_up, jj)
         d == TriSlot(Dec(fill_call.pat[3], t), fill_call.word_down,
                      fill_call.last_equal_down, jj)
     IN fill_call' =
          [fill_call EXCEPT
             !.word = s.w, !.last_equal = s.le,
             !.word_up = u.w, !.last_equal_up = u.le,
             !.word_down = d.w, !.last_equal_down = d.le,
             !.jj = jj + 1,
             !.at = AfterSlot(jj)]
  /\ UNCHANGED not_fill

\* the stores of a fill routine that keeps the ramp words in every mode
fill_store_ramps_always ==
  /\ fill_call.at = "store"
  /\ LET ii == fill_call.ii
         m == fill_call.mode
         inside == ii < FillCap
     IN fill_call' =
          [fill_call EXCEPT
             !.steady = IF inside THEN [@ EXCEPT ![ii] = fill_call.word]
                        ELSE @,
             !.ramp_up =
                IF ~inside THEN @
                ELSE [@ EXCEPT ![ii] = fill_call.word_up],
             !.ramp_down =
                IF ~inside THEN @
                ELSE [@ EXCEPT ![ii] = fill_call.word_down],
             !.gen = IF m = 1
                     THEN <<Append(@[1], fill_call.word), @[2], @[3]>>
                     ELSE <<Append(@[1], fill_call.word),
                            Append(@[2], fill_call.word_up),
                            Append(@[3], fill_call.word_down)>>,
             !.ii = ii + 1, !.jj = 0,
             !.word = {}, !.word_up = {}, !.word_down = {},
             !.at = IF ii + 1 < fill_call.n_words THEN "slot" ELSE "done"]
  /\ UNCHANGED not_fill

\* the end of one pass of the loop over the words: the stores guarded by
\* ii < max_words, ii++, the loop test and the reset of the words
fill_store ==
  /\ fill_call.at = "store"
  /\ LET ii == fill_call.ii
         m == fill_call.mode
         inside == ii < FillCap
         click_free == m # 1 /\ m >= 4
     IN fill_call' =
          [fill_call EXCEPT
             !.steady = IF inside THEN [@ EXCEPT ![ii] = fill_call.word]
                        ELSE @,
             !.ramp_up =
                IF ~inside THEN @
                ELSE IF click_free
                THEN [@ EXCEPT ![ii] = fill_call.word_up]
                ELSE [@ EXCEPT ![ii] = fill_call.word],
             !.ramp_down =
                IF ~inside THEN @
                ELSE IF click_free
                THEN [@ EXCEPT ![ii] = fill_call.word_down]
                ELSE [@ EXCEPT ![ii] = {}],
             !.gen = IF m = 1
                     THEN <<Append(@[1], fill_call.word), @[2], @[3]>>
                     ELSE <<Append(@[1], fill_call.word),
                            Append(@[2], fill_call.word_up),
                            Append(@[3], fill_call.word_down)>>,
             !.ii = ii + 1, !.jj = 0,
             !.word = {}, !.word_up = {}, !.word_down = {},
             !.at = IF ii + 1 < fill_call.n_words THEN "slot" ELSE "done"]
  /\ UNCHANGED not_fill

\* ------------------------------------------------------------------ taper
\* a call of taper: the value is computed and returned
taper_step ==
  /\ taper_call.at = "call"
  /\ taper_call' =
       [taper_call EXCEPT
          !.at = "ret",
          !.k = taper(taper_call.n, taper_call.n_max, taper_call.falling)]
  /\ UNCHANGED not_taper

\* ------------------------------------------------------------ Morse keying
\* initMorseRate with a word pause of six units
initMorseRate_short_word_pause(m, WPM) ==
  LET w1 == IF WPM < 5 THEN 5 ELSE WPM
      w == IF w1 > 100 THEN 100 ELSE w1
      u == (1000 * 60) \div (w * 50)
  IN [m EXCEPT !.wpm_arg = WPM, !.wpm_eff = w,
               !.msPerUnit = u, !.msPerDot = u, !.msPerDash = u * 3,
               !.msPiecePause = u, !.msCharPause = u * 3,
               !.msWordPause = u * 6]

\* initMorseRate(WPM)
initMorseRate(m, WPM) ==
  LET w1 == IF WPM < 5 THEN 5 ELSE WPM
      w == IF w1 > 100 THEN 100 ELSE w1
      u == (1000 * 60) \div (w * 50)
  IN [m EXCEPT !.wpm_arg = WPM, !.wpm_eff = w,
               !.msPerUnit = u, !.msPerDot = u, !.msPerDash = u * 3,
               !.msPiecePause = u, !.msCharPause = u * 3,
               !.msWordPause = u * 7]

\* start_transmitting: rf_synth exists, enable_output
start_transmitting(m) ==
  [m EXCEPT !.transmitting = TRUE, !.calls = Append(@, "start")]

\* stop_transmitting: disable_output
stop_transmitting(m) ==
  [m EXCEPT !.transmitting = FALSE, !.calls = Append(@, "stop")]

\* code & (1 << k)
Bit(code, k) == (code \div (2 ^ k)) % 2 = 1

\* the element picked with currentBit is a dash, taken from the wrong end
ElementIsDash_lsb_first(code, len, currentBit) == Bit(code, len - currentBit)

\* the element picked with currentBit is a dash: code & (1 << (currentBit-1))
ElementIsDash(code, len, currentBit) == Bit(code, currentBit - 1)

\* a key-down starts at stateBegin: nextEventTime and the log of what was
\* scheduled
KeyDown(m, code, len) ==
  LET dur == IF ElementIsDash(code, len, m.currentBit) THEN m.msPerDash
             ELSE m.msPerDot
  IN [m EXCEPT !.l_next = m.stateBegin + dur,
               !.durs = Append(@, dur)]

\* sendMorseLetter(code, len); the value returned is l_ret
sendMorseLetter(m, code, len) ==
  IF m.l_state = 0
  THEN LET a == start_transmitting(
                  [m EXCEPT !.stateBegin = m.global_time,
                            !.calls = <<>>, !.durs = <<>>, !.gaps = <<>>,
                            !.ones = 0])
       IN KeyDown([a EXCEPT !.currentBit = len, !.l_state = 1, !.l_ret = 0],
                  code, len)
  ELSE IF m.global_time < m.l_next THEN [m EXCEPT !.l_ret = 0]
  ELSE IF m.l_state = 1
  THEN LET a == stop_transmitting([m EXCEPT !.stateBegin = m.l_next])
       IN [a EXCEPT !.currentBit = @ - 1, !.l_state = 2,
                    !.l_next = a.stateBegin + m.msPiecePause,
                    !.gaps = Append(@, <<m.msPiecePause, m.msPerUnit>>),
                    !.l_ret = 0]
  ELSE IF m.l_state = 2
  THEN LET a == [m EXCEPT !.stateBegin = m.l_next, !.l_ret = 0]
       IN IF m.currentBit = 0
          THEN [a EXCEPT
                  !.l_next = a.stateBegin + m.msCharPause - m.msPiecePause,
                  !.l_state = 3,
                  !.gaps[Len(m.gaps)] =
                     <<@[1] + m.msCharPause - m.msPiecePause, @[2]>>]
          ELSE KeyDown([start_transmitting(a) EXCEPT !.l_state = 1],
                       code, len)
  ELSE IF m.l_state = 3
  THEN [m EXCEPT !.l_state = 0, !.l_ret = 1, !.ones = @ + 1]
  ELSE [m EXCEPT !.l_ret = 0]

\* sendPause(pause); the value returned is p_ret
sendPause(m, pause) ==
  IF m.p_state = 0
  THEN [m EXCEPT !.p_next = m.global_time + pause, !.p_state = 1,
                 !.pauses = <<<<pause, m.msPerUnit>>>>,
                 !.p_ret = 0]
  ELSE IF m.global_time > m.p_next
  THEN [m EXCEPT !.p_state = 0, !.p_ret = 1]
  ELSE [m EXCEPT !.p_ret = 0]

\* sendWordPause()
sendWordPause(m) == sendPause(m, m.msWordPause - m.msCharPause)

\* MorseCodes[currentChar] and MorseLengths[currentChar]: the tables have 128
\* entries and currentChar is a uint8_t, so an index from 128 up reads past
\* their end and yields oob
TableRead(c, oob) ==
  IF c < 128 THEN <<MorseCodes[c + 1], MorseLengths[c + 1]>> ELSE oob

\* sendMorseString(str); the value returned is s_ret
sendMorseString(m, str, oob) ==
  IF m.charNo >= Len(str)
  THEN [m EXCEPT !.charNo = 0, !.s_ret = 1]
  ELSE IF m.s_state = 0
  THEN LET c == str[m.charNo + 1]
           b == [m EXCEPT !.s_ret = 0,
                          !.sent = IF m.charNo = 0 THEN <<>> ELSE @]
       IN IF c = 32
          THEN sendPause([b EXCEPT !.s_state = 2,
                                   !.sent = Append(@, <<"pause", m.charNo>>)],
                         m.msWordPause - m.msCharPause)
          ELSE LET r == TableRead(c, oob)
                   d == [b EXCEPT !.currentCode = r[1], !.currentLen = r[2]]
               IN IF r[2] > 0
                  THEN sendMorseLetter(
                         [d EXCEPT !.s_state = 1,
                                   !.sent = Append(@, <<"letter", m.charNo>>)],
                         r[1], r[2])
                  ELSE [d EXCEPT !.charNo = @ + 1]
  ELSE IF m.s_state = 1
  THEN LET a == sendMorseLetter([m EXCEPT !.s_ret = 0],
                                m.currentCode, m.currentLen)
       IN IF a.l_ret = 1
          THEN [a EXCEPT !.charNo = @ + 1, !.s_state = 0]
          ELSE a
  ELSE IF m.s_state = 2
  THEN LET a == sendPause([m EXCEPT !.s_ret = 0],
                          m.msWordPause - m.msCharPause)
       IN IF a.p_ret = 1
          THEN [a EXCEPT !.charNo = @ + 1, !.s_state = 0]
          ELSE a
  ELSE [m EXCEPT !.s_ret = 0]

\* an entry is added to the log of the cycle of loop(), which starts afresh
\* after the cycle has restarted
Logged(m, e) ==
  [m EXCEPT !.cycle = IF m.cycle_done THEN <<e>> ELSE Append(@, e),
            !.cycle_done = FALSE]

\* the rate loop() sets for the call sign, not doubled
CallRate_same(w) == w

\* the rate loop() sets for the call sign
CallRate(w) == 2 * w

\* loop(), from the test of key_down on; the start_transmitting of a held key
\* is not entered in the log of the letter under way
loop(m, oob) ==
  IF m.key_down THEN [start_transmitting(m) EXCEPT !.calls = m.calls]
  ELSE IF m.state1 < 10
  THEN LET a == initMorseRate(m, m.wpm)
       IN IF a.state2 = 0
          THEN LET b == sendMorseString(a, a.fox_string, oob)
               IN IF b.s_ret = 1
                  THEN Logged([b EXCEPT !.state2 = @ + 1],
                              <<"fox", b.wpm_eff>>)
                  ELSE b
          ELSE IF a.state2 = 1
          THEN LET b == sendWordPause(a)
               IN IF b.p_ret = 1
                  THEN Logged([b EXCEPT !.state2 = 0, !.state1 = @ + 1],
                              <<"pause", b.wpm_eff>>)
                  ELSE b
          ELSE [a EXCEPT !.state2 = 0]
  ELSE IF Len(m.call) = 0
  THEN [m EXCEPT !.state2 = 0, !.state1 = 0, !.cycle_done = TRUE]
  ELSE LET a == initMorseRate(m, CallRate(m.wpm))
       IN IF a.state2 = 0
          THEN LET b == sendMorseString(a, a.call, oob)
               IN IF b.s_ret = 1
                  THEN Logged([b EXCEPT !.state2 = @ + 1],
                              <<"call", b.wpm_eff>>)
                  ELSE b
          ELSE IF a.state2 = 1
          THEN LET b == sendWordPause(a)
               IN IF b.p_ret = 1
                  THEN [Logged([b EXCEPT !.state2 = 0, !.state1 = 0],
                               <<"pause", b.wpm_eff>>)
                          EXCEPT !.cycle_done = TRUE]
                  ELSE b
          ELSE [a EXCEPT !.state2 = 0]

\* global_time advances by d ms between two polls of the routine called
Tick(routine, d, limit) ==
  /\ morse.at = routine
  /\ morse.polled
  /\ morse.global_time + d <= limit
  /\ morse' = [morse EXCEPT !.global_time = @ + d, !.polled = FALSE]
  /\ UNCHANGED not_morse

\* the rate is set before a letter or a string is sent on its own
initMorseRate_call ==
  /\ morse.at \in {"rate_letter", "rate_string"}
  /\ morse' = [initMorseRate(morse, morse.arg_wpm) EXCEPT
                 !.at = IF morse.at = "rate_letter" THEN "letter"
                        ELSE "string"]
  /\ UNCHANGED not_morse

\* a call of sendMorseLetter
sendMorseLetter_call ==
  /\ morse.at = "letter"
  /\ morse' = [sendMorseLetter(morse, morse.arg_code, morse.arg_len) EXCEPT
                 !.polled = TRUE]
  /\ UNCHANGED not_morse

\* a call of sendMorseString
sendMorseString_call(oob) ==
  /\ morse.at = "string"
  /\ morse' = [sendMorseString(morse, morse.arg_str, oob) EXCEPT
                 !.polled = TRUE]
  /\ UNCHANGED not_morse

\* a call of loop()
loop_call(oob) ==
  /\ morse.at = "loop"
  /\ morse' = [loop(morse, oob) EXCEPT !.polled = TRUE]
  /\ UNCHANGED not_morse

\* CmdKeyDown(argc, argv)
CmdKeyDown(m, argv) ==
  IF Len(argv) > 2 THEN m
  ELSE IF Len(argv) = 1 THEN [m EXCEPT !.key_down = TRUE]
  ELSE IF argv[2][1] = 49 THEN [m EXCEPT !.key_down = TRUE]
  ELSE [m EXCEPT !.key_down = FALSE]

\* cmd.poll() at the start of loop(): the handler of the command that came in
poll(m, line) == IF line = <<>> THEN m ELSE CmdKeyDown(m, line)

\* a pass of loop(): the command that came in, then the keyer
keyed_loop_call(line, oob) ==
  /\ morse.at = "keyed"
  /\ morse' = [loop(poll(morse, line), oob) EXCEPT !.polled = TRUE]
  /\ UNCHANGED not_morse

\* ------------------------------------------------------------ configuration
\* frequencies[]: switch_val and freq
frequencies ==
  << <<1, 3510000>>, <<2, 3520000>>, <<3, 3530000>>, <<4, 3540000>>,
     <<5, 3550000>>, <<6, 3560000>>, <<7, 3570000>>, <<8, 3580000>>,
     <<9, 3590000>>, <<10, 3600000>>, <<11, 3500000>>, <<12, 3579545>>,
     <<13, 3579900>>, <<14, 0>> >>

\* foxes[]: "MO", "MOE", "MOI", "MOS", "MOH", "MO5", "MON", "MOD", ""
foxes ==
  << <<77, 79>>, <<77, 79, 69>>, <<77, 79, 73>>, <<77, 79, 83>>,
     <<77, 79, 72>>, <<77, 79, 53>>, <<77, 79, 78>>, <<77, 79, 68>>, <<>> >>

\* comparisons of doubles: every comparison with a NaN is false
FLess(x, y) == x # NaN /\ y # NaN /\ x < y

\* isnan
isnan(x) == x = NaN

\* the number of bytes before the first zero byte
RECURSIVE NonZeroRun(_)
NonZeroRun(bytes) ==
  IF bytes = <<>> \/ Head(bytes) = 0 THEN 0
  ELSE 1 + NonZeroRun(Tail(bytes))

\* the C string held in an array of bytes
CStr(bytes) == SubSeq(bytes, 1, NonZeroRun(bytes))

\* strlen(current_config.fox_string) and strlen(current_config.call): an
\* array without a zero byte is read on into the fields behind it; a result
\* that reaches the end of the structure stands for that length or more
strlen_fox(c) ==
  NonZeroRun(c.fox_string \o c.call \o c.is_initialized_token)
strlen_call(c) == NonZeroRun(c.call \o c.is_initialized_token)

\* strncpy(dst, src, n) followed by dst[n - 1] = 0
strncpy(src, n) ==
  [i \in 1..n |-> IF i <= Len(src) /\ i < n THEN src[i] ELSE 0]

\* sanitize_config
sanitize_config(c) ==
  LET c1 == [c EXCEPT !.is_initialized_token = EEPROM_INITIALIZED_TOKEN]
      c2 == IF FLess(c1.frequency, MIN_FREQ)
            THEN [c1 EXCEPT !.frequency = DEFAULT_FREQ] ELSE c1
      c3 == IF FLess(MAX_FREQ, c2.frequency)
            THEN [c2 EXCEPT !.frequency = DEFAULT_FREQ] ELSE c2
      c4 == IF isnan(c3.frequency)
            THEN [c3 EXCEPT !.frequency = DEFAULT_FREQ] ELSE c3
      c5 == IF c4.wpm < MIN_WPM THEN [c4 EXCEPT !.wpm = DEFAULT_WPM] ELSE c4
      c6 == IF c5.wpm > MAX_WPM THEN [c5 EXCEPT !.wpm = DEFAULT_WPM] ELSE c5
      c7 == IF strlen_fox(c6) < 1
            THEN [c6 EXCEPT !.fox_string = strncpy(<<77, 79>>, MAX_FOX_LEN + 1)]
            ELSE c6
      c8 == IF strlen_fox(c7) > MAX_FOX_LEN + 1
            THEN [c7 EXCEPT !.fox_string = strncpy(DEFAULT_FOX, MAX_FOX_LEN + 1)]
            ELSE c7
      c9 == IF strlen_call(c8) > MAX_CALL_LEN
            THEN [c8 EXCEPT !.call = strncpy(DEFAULT_CALL, MAX_CALL_LEN + 1)]
            ELSE c8
  IN c9

\* load_EEPROM_config: the configuration read and sanitized, and the value
\* returned
load_EEPROM_config(eeprom) ==
  [config |-> sanitize_config(eeprom),
   retval |-> (eeprom.is_initialized_token = EEPROM_INITIALIZED_TOKEN)]

\* fox_string_to_num: the index of the first entry of foxes equal to fox
fox_string_to_num(fox) ==
  IF \E ii \in 1..Len(foxes) : foxes[ii] = fox
  THEN (CHOOSE ii \in 1..Len(foxes) :
          foxes[ii] = fox /\ \A k \in 1..(ii - 1) : foxes[k] # fox) - 1
  ELSE -1

\* the frequency apply_frequency_switch finds for n: 0 when there is none
SwitchFrequency(n) ==
  IF \E ii \in 1..Len(frequencies) : frequencies[ii][1] = n
  THEN frequencies[CHOOSE ii \in 1..Len(frequencies) :
                     frequencies[ii][1] = n][2]
  ELSE 0

\* apply_frequency_switch that stores whatever it finds
apply_frequency_switch_unchecked(c, n) ==
  [c EXCEPT !.frequency = SwitchFrequency(n)]

\* apply_frequency_switch
apply_frequency_switch(c, n) ==
  LET freq == SwitchFrequency(n)
  IN IF freq # 0 THEN [c EXCEPT !.frequency = freq] ELSE c

\* fox_num_to_config; oob is what foxes[n] yields for a negative n
fox_num_to_config(c, n, oob) ==
  IF n < Len(foxes)
  THEN [c EXCEPT !.fox_string =
          strncpy(IF n >= 0 THEN foxes[n + 1] ELSE oob, MAX_FOX_LEN + 1)]
  ELSE c

\* bit k of the switches: 1 when the switch is closed
Sw(sw, k) == (sw \div (2 ^ k)) % 2

\* read_switches, with the switches read as sw
read_switches(c, eeprom, sw) ==
  LET freq_switch == Sw(sw, 7) * 8 + Sw(sw, 6) * 4 + Sw(sw, 5) * 2 + Sw(sw, 4)
      fox_switch == Sw(sw, 3) * 4 + Sw(sw, 2) * 2 + Sw(sw, 1)
  IN IF freq_switch = 0
     THEN load_EEPROM_config(eeprom).config
     ELSE LET a == apply_frequency_switch(c, freq_switch)
              b == fox_num_to_config(a, fox_switch, <<>>)
          IN [b EXCEPT !.wpm = IF Sw(sw, 0) = 1 THEN 15 ELSE 10,
                       !.is_initialized_token = EEPROM_INITIALIZED_TOKEN]

\* a configuration routine has been called with arg and has returned ret
Called(op, arg, config, ret, at) ==
  /\ cfg_call' = [cfg_call EXCEPT
                    !.at = at,
                    !.current_config = config,
                    !.last = [op |-> op, arg |-> arg,
                              pre |-> cfg_call.current_config, ret |-> ret]]
  /\ UNCHANGED not_config

\* setup(): load_EEPROM_config()
load_EEPROM_config_call ==
  /\ cfg_call.at = "boot"
  /\ LET r == load_EEPROM_config(cfg_call.eeprom)
     IN Called("load_EEPROM_config", 0, r.config, r.retval, "loaded")

\* setup() and the button: read_switches()
read_switches_call(sw) ==
  /\ cfg_call.at = "loaded"
  /\ Called("read_switches", sw,
            read_switches(cfg_call.current_config, cfg_call.eeprom, sw),
            0, "done")

\* apply_frequency_switch(n) on its own
apply_frequency_switch_call(n) ==
  /\ cfg_call.at = "loaded"
  /\ Called("apply_frequency_switch", n,
            apply_frequency_switch(cfg_call.current_config, n), 0, "done")

\* fox_num_to_config(n) on its own
fox_num_to_config_call(n, oob) ==
  /\ cfg_call.at = "loaded"
  /\ Called("fox_num_to_config", n,
            fox_num_to_config(cfg_call.current_config, n, oob), 0, "done")

\* fox_string_to_num(fox) on its own
fox_string_to_num_call(fox) ==
  /\ cfg_call.at = "loaded"
  /\ Called("fox_string_to_num", fox, cfg_call.current_config,
            fox_string_to_num(fox), "done")

\* fox_string_to_num(current_config.fox_string) after fox_num_to_config
fox_round_trip_call ==
  /\ cfg_call.at = "done"
  /\ cfg_call.last.op = "fox_num_to_config"
  /\ cfg_call' = [cfg_call EXCEPT
                    !.at = "tripped",
                    !.last.ret =
                       fox_string_to_num(CStr(cfg_call.current_config.fox_string))]
  /\ UNCHANGED not_config

\* current_config with frequency f and its other fields within their limits
ConfigWith(f) == [sanitize_config(ZeroConfig) EXCEPT !.frequency = f]

\* print_config: sanitize_config, then the fields are printed
print_config(c) == sanitize_config(c)

\* store_EEPROM_config: sanitize_config, then EEPROM.put and commit
store_EEPROM_config(c) == sanitize_config(c)

\* CmdPrintStatus: print_config, then the battery voltage
CmdPrintStatus ==
  /\ CmdReady /\ CmdNoted("stat", 0)
  /\ config_frequency' = print_config(ConfigWith(config_frequency)).frequency
  /\ serial_last' = "Battery: "
  /\ UNCHANGED <<pc, params, lengths, needs_recalculation, pio, dma_ids,
                 buffers, enable_transmit, dma_state, dma_regs, hist_apply,
                 cmd_after>>
  /\ UNCHANGED_hist
  /\ UNCHANGED calls

\* CmdStore: store_EEPROM_config, "Stored:", print_config
CmdStore ==
  /\ CmdReady /\ CmdNoted("store", 0)
  /\ config_frequency' =
       print_config(store_EEPROM_config(ConfigWith(config_frequency))).frequency
  /\ serial_last' = "Call: "
  /\ UNCHANGED <<pc, params, lengths, needs_recalculation, pio, dma_ids,
                 buffers, enable_transmit, dma_state, dma_regs, hist_apply,
                 cmd_after>>
  /\ UNCHANGED_hist
  /\ UNCHANGED calls

\* ------------------------------------------------------------------- Next
\* the constructor, calculate_buffers and setup_dma
Construct ==
  \/ \E f \in FreqInputs \ {0} : synth_ctor(f)
  \/ calculate_buffers_lengths
  \/ \E q \in DitherDraws : calculate_buffers_fill(q)
  \/ ctor_add_pio_program
  \/ setup_dma

\* the steps of apply_settings
Apply ==
  \/ apply_settings
  \/ as_clear_synth_en
  \/ as_clear_restart_en
  \/ \E ok_s \in BOOLEAN, ok_r \in BOOLEAN : as_abort(ok_s, ok_r)
  \/ as_busy_test
  \/ unclaim_dma
  \/ remove_pio_program
  \/ add_pio_program
  \/ apply_settings_return

\* the DMA channels and the completion interrupt
Dma ==
  \/ SynthDmaComplete
  \/ RestartDmaTransfer
  \/ dma_irq_handler

\* Keying: the transmitter is keyed on and off and retuned (frequency, mode)
\* while the DMA chain runs.
NextKeying ==
  \/ Construct
  \/ \E f \in FreqInputs : set_frequency(f)
  \/ \E m \in ModeInputs : set_mode(m)
  \/ enable_output
  \/ disable_output
  \/ Apply
  \/ Dma

SpecKeying == Init /\ [][NextKeying]_vars

\* Parameters: every setter and the default command are used while the DMA
\* chain runs unkeyed.
NextParams ==
  \/ Construct
  \/ \E f \in FreqInputs : set_frequency(f)
  \/ \E a \in DitherInputs : set_dither_amplitude(a)
  \/ \E a \in AmplInputs : set_amplitude(a)
  \/ \E a \in Hd3AmplInputs : set_hd3_amplitude(a)
  \/ \E p \in Hd3PhaseInputs : set_hd3_phase(p)
  \/ \E m \in MaxWordsInputs : set_max_words(m)
  \/ \E m \in ModeInputs : set_mode(m)
  \/ CmdDefault
  \/ Apply
  \/ Dma

SpecParams == Init /\ [][NextParams]_vars

\* Retuning: frequency, buffer limit and mode are set to values inside and
\* outside their documented ranges and applied while the DMA chain runs
\* unkeyed.
NextRetune ==
  \/ Construct
  \/ \E f \in FreqInputs : set_frequency(f)
  \/ \E m \in RetuneMaxWordsInputs : set_max_words(m)
  \/ \E m \in RetuneModeInputs : set_mode(m)
  \/ Apply
  \/ Dma

SpecRetune == Init /\ [][NextRetune]_vars

\* The control path keeps executing the do-while of apply_settings: neither
\* its body nor its test is postponed forever.
SpecRetuneFair ==
  /\ SpecRetune
  /\ WF_vars(\E ok_s \in BOOLEAN, ok_r \in BOOLEAN : as_abort(ok_s, ok_r))
  /\ WF_vars(as_busy_test)

\* Commands: the seven parameter commands are given with arguments inside
\* and outside their ranges while the DMA chain runs unkeyed.
NextCommands ==
  \/ Construct
  \/ \E a \in CmdFreqInputs : CmdFreq(a)
  \/ CmdFreq_store
  \/ \E a \in CmdModeInputs : CmdMode(a)
  \/ \E a \in CmdBufsizeInputs : CmdBufsize(a)
  \/ \E a \in CmdDitherInputs : CmdDither(a)
  \/ \E a \in CmdAmplInputs : CmdAmpl(a)
  \/ \E a \in CmdAmplHD3Inputs : CmdAmplHD3(a)
  \/ \E a \in CmdPhaseHD3Inputs : CmdPhaseHD3(a)
  \/ Apply
  \/ Dma

SpecCommands == Init /\ [][NextCommands]_vars

\* freq, stat and store commands
NextStatus ==
  \/ Construct
  \/ \E a \in StatFreqInputs : CmdFreq(a)
  \/ CmdFreq_store
  \/ CmdPrintStatus
  \/ CmdStore
  \/ Apply
  \/ Dma

SpecStatus == Init /\ [][NextStatus]_vars

\* rational_approximation called on its own
NextFarey ==
  \/ rational_approximation_entry
  \/ rational_approximation_pass

SpecFarey == InitFarey /\ [][NextFarey]_vars

\* rational_approximation called on its own, in double arithmetic
NextDouble ==
  \/ rational_approximation_entry_double
  \/ rational_approximation_pass_double

SpecDouble == InitDouble /\ [][NextDouble]_vars

\* a fill routine run on its own
NextFill ==
  \/ fill_entry
  \/ compare_slot
  \/ sigma_delta_slot
  \/ sigma_delta_3s_slot
  \/ fill_store

SpecFill == InitFill /\ [][NextFill]_vars

\* taper called on its own
NextTaper == taper_step

SpecTaper == InitTaper /\ [][NextTaper]_vars

\* sendMorseLetter called repeatedly while time advances
NextLetter ==
  \/ initMorseRate_call
  \/ sendMorseLetter_call
  \/ \E d \in TickInputs : Tick("letter", d, MaxTime)

SpecLetter == InitLetter /\ [][NextLetter]_vars

\* sendMorseString called repeatedly while time advances
NextString ==
  \/ initMorseRate_call
  \/ \E oob \in OobReads : sendMorseString_call(oob)
  \/ \E d \in TickInputs : Tick("string", d, MaxTime)

SpecString == InitString /\ [][NextString]_vars

\* loop() called repeatedly while time advances
NextLoop ==
  \/ \E oob \in OobReads : loop_call(oob)
  \/ \E d \in LoopTickInputs : Tick("loop", d, MaxLoopTime)

SpecLoop == InitLoop /\ [][NextLoop]_vars

\* loop() called repeatedly while keydown commands come in
NextKeyed ==
  \/ \E line \in KeyDownInputs, oob \in OobReads : keyed_loop_call(line, oob)
  \/ \E d \in KeyTickInputs : Tick("keyed", d, MaxKeyTime)

SpecKeyed == InitKeyed /\ [][NextKeyed]_vars

\* the Morse keyer, driven letter by letter, string by string or by loop()
InitMorse == InitLetter \/ InitString \/ InitLoop

NextMorse == NextLetter \/ NextString \/ NextLoop

SpecMorse == InitMorse /\ [][NextMorse]_vars

\* the configuration routines called after the configuration was loaded
NextConfig ==
  \/ load_EEPROM_config_call
  \/ \E sw \in SwitchInputs : read_switches_call(sw)
  \/ \E n \in FreqSwitchInputs : apply_frequency_switch_call(n)
  \/ \E n \in FoxNumInputs, oob \in OobFoxes : fox_num_to_config_call(n, oob)
  \/ \E fox \in FoxStringInputs : fox_string_to_num_call(fox)
  \/ fox_round_trip_call

SpecConfig == InitConfig /\ [][NextConfig]_vars

Next ==
  \/ NextKeying \/ NextParams \/ NextRetune \/ NextCommands \/ NextStatus
  \/ NextFarey \/ NextDouble \/ NextFill \/ NextTaper
  \/ NextLetter \/ NextString \/ NextLoop \/ NextKeyed \/ NextConfig

Spec == Init /\ [][Next]_vars

\* =================================================================== claims
HandlerStep == irq_pending /\ ~irq_pending' /\ pc' = pc
StreamStep == ~synth_busy /\ synth_busy'
FillPcs == {"ctor_calc", "ctor_fill", "as_calc", "as_fill"}

\* C1: at every completion event the handler picks the next buffer from
\* enable_transmit and dma_state by the four-case rule (steady / ramp-up /
\* silent / ramp-down) and moves dma_state accordingly; dma_state is always
\* 0 (Idle) or 1 (Transmitting).
C1_HandlerRule ==
  /\ [](dma_state \in {0, 1})
  /\ [][HandlerStep =>
         /\ (enable_transmit /\ dma_state = 1
               => restart_read' = "steady" /\ dma_state' = 1)
         /\ (enable_transmit /\ dma_state = 0
               => restart_read' = "ramp_up" /\ dma_state' = 1)
         /\ (~enable_transmit /\ dma_state = 0
               => restart_read' = "silent" /\ dma_state' = 0)
         /\ (~enable_transmit /\ dma_state = 1
               => restart_read' = "ramp_down" /\ dma_state' = 0)]_vars

C1_Witness ==
  last_sel = "ramp_down" /\ restart_read = "ramp_down" /\ dma_state = 0

\* C2 (as claimed): a completion event that follows a call setting
\* enable_transmit true selects the ramp-up buffer, one that follows a call
\* setting it false selects the ramp-down buffer, and with no change since
\* the previous event the handler selects steady or silent.
C2_EdgeSelectsRamp ==
  [][HandlerStep =>
       /\ (edge = "rise" => last_sel' = "ramp_up")
       /\ (edge = "fall" => last_sel' = "ramp_down")
       /\ (edge = "none" /\ last_sel # "none"
             => last_sel' = IF enable_transmit THEN "steady" ELSE "silent")]_vars

\* C2 (amended): the sequence of buffers selected by successive completion
\* events has the shape (silent* ramp-up steady* ramp-down)*: an event that
\* sees enable_transmit true selects ramp-up once (after silent, ramp-down or
\* nothing) and steady from then on; one that sees it false selects
\* ramp-down once (after ramp-up or steady) and silent from then on.
C2_SelectionShape ==
  [][HandlerStep =>
       /\ (enable_transmit /\ last_sel \in {"none", "silent", "ramp_down"}
             => last_sel' = "ramp_up")
       /\ (enable_transmit /\ last_sel \in {"ramp_up", "steady"}
             => last_sel' = "steady")
       /\ (~enable_transmit /\ last_sel \in {"ramp_up", "steady"}
             => last_sel' = "ramp_down")
       /\ (~enable_transmit /\ last_sel \in {"none", "silent", "ramp_down"}
             => last_sel' = "silent")
       /\ last_sel' \in BufNames]_vars

C2_Witness ==
  last_sel = "steady" /\ synth_read = "steady" /\ enable_transmit

\* C3 (as claimed): after the constructor or apply_settings has restarted the
\* engines the first buffer streamed is the silent one and the playback state
\* is Idle; a ramp-up buffer is never followed directly by the silent buffer.
C3_RestartFromSilent ==
  /\ [](restarted => restart_read = "silent" /\ dma_state = 0)
  /\ [][StreamStep /\ ~restarted
          => ~(synth_read = "ramp_up" /\ synth_read' = "silent")]_vars

\* C4: while calculate_buffers runs, both channels are disabled, idle and
\* unclaimed and no completion interrupt is enabled or pending; buffer memory
\* and the buffer length change only then; the engines are started after it.
C4_StopBeforeRewrite ==
  /\ [](pc \in FillPcs =>
          /\ ~synth_busy /\ ~restart_busy
          /\ ~synth_en /\ ~restart_en
          /\ ~irq0_enabled /\ ~irq_pending
          /\ claimed = {}
          /\ (pc \in {"as_calc", "as_fill"}
                => synth_dma = INVALID_DMA /\ restart_dma = INVALID_DMA))
  /\ [][buffers' # buffers => pc \in FillPcs /\ pc' \notin FillPcs]_vars

C4_Witness ==
  pc = "as_fill" /\ synth_read \in BufNames /\ last_sel = "steady"

\* C5 (as claimed): the buffer streamed immediately after the buffer during
\* which the keying request was made is the requested ramp buffer.
C5_NextBufferIsRamp ==
  req # "none" /\ req_age = 1 => synth_read = req

\* C5 (amended): the requested ramp buffer is one of the two buffers streamed
\* after the buffer during which the request was made.
C5_SecondBufferIsRamp ==
  req # "none" /\ req_age = 2 => req_hit

C5_Witness ==
  /\ req = "ramp_up" /\ req_age = 2 /\ req_hit
  /\ synth_read = "ramp_up" /\ synth_busy

\* C6: the handler never writes enable_transmit, no control-path step writes
\* dma_state, and in a buffer-driven mode a step that changes
\* enable_transmit changes nothing else of the program state.
C6_SingleWriter ==
  [][/\ (HandlerStep => enable_transmit' = enable_transmit)
     /\ (~HandlerStep => dma_state' = dma_state)
     /\ (enable_transmit' # enable_transmit /\ mode # 0
           => UNCHANGED <<pc, params, lengths, needs_recalculation, pio,
                          dma_ids, buffers, dma_state, dma_regs>>)]_vars

C6_Witness ==
  /\ enable_transmit /\ dma_state = 0 /\ mode # 0 /\ pc = "idle"
  /\ synth_busy /\ restart_read = "silent"

Setter ==
  \/ \E f \in FreqInputs : set_frequency(f)
  \/ \E a \in DitherInputs : set_dither_amplitude(a)
  \/ \E a \in AmplInputs : set_amplitude(a)
  \/ \E a \in Hd3AmplInputs : set_hd3_amplitude(a)
  \/ \E p \in Hd3PhaseInputs : set_hd3_phase(p)
  \/ \E m \in MaxWordsInputs : set_max_words(m)
  \/ \E m \in 0..5 : set_mode(m)

\* C7: every setter sets needs_recalculation and leaves the buffers and
\* n_words, n_periods alone; these change only inside calculate_buffers
\* (n_words also in the constructor's field initialisation); an
\* apply_settings that returns in a buffer-driven mode has run
\* calculate_buffers exactly once.
C7_SettersCoalesce ==
  [][/\ (Setter => needs_recalculation' /\ UNCHANGED <<buffers, lengths>>)
     /\ (buffers' # buffers => pc \in FillPcs)
     /\ (lengths' # lengths => pc \in FillPcs \cup {"boot"})
     /\ (pc = "as_done" /\ pc' = "idle" /\ mode # 0 => calc_runs = 1)]_vars

C7_Witness ==
  pc = "as_done" /\ calc_runs = 1 /\ since_apply = "dirty" /\ mode # 0

\* C8 (as claimed): once apply_settings has returned and no setter has been
\* called since, needs_recalculation is false and a further apply_settings
\* returns at once, in every mode.
C8_SecondApplyNoOp ==
  /\ [](since_apply = "clean" => ~needs_recalculation)
  /\ [][since_apply = "clean" /\ pc = "idle"
          => pc' \in {"idle", "cmd_apply"}]_vars

\* C9: set_mode(m) with m outside 0..5 leaves mode and needs_recalculation
\* (and everything but the diagnostic) unchanged; with m in 0..5 it stores m
\* and sets needs_recalculation; mode is always in 0..5.
C9_SetModeValidates ==
  /\ [](mode \in 0..5)
  /\ [][\A m \in ModeInputs : set_mode(m) =>
          IF m \in 0..5
          THEN mode' = m /\ needs_recalculation'
          ELSE UNCHANGED <<pc, params, lengths, needs_recalculation, pio,
                           dma_ids, buffers, enable_transmit, dma_state,
                           dma_regs, since_apply>>]_vars

C9_Witness ==
  /\ serial_last = "Attempted to set invalid mode"
  /\ mode = 5 /\ ~needs_recalculation /\ since_apply = "clean"

\* C10 (as claimed): a setter called with a value outside the documented
\* range leaves the stored parameter and needs_recalculation unchanged.
C10_SettersReject ==
  [][/\ \A f \in FreqInputs : set_frequency(f) /\ ~FreqInRange(f)
           => UNCHANGED <<frequency, needs_recalculation>>
     /\ \A a \in AmplInputs : set_amplitude(a) /\ ~AmplInRange(a)
           => UNCHANGED <<amplitude, needs_recalculation>>
     /\ \A a \in DitherInputs : set_dither_amplitude(a) /\ ~DitherInRange(a)
           => UNCHANGED <<dither_amplitude, needs_recalculation>>
     /\ \A a \in Hd3AmplInputs : set_hd3_amplitude(a) /\ ~Hd3AmplInRange(a)
           => UNCHANGED <<hd3_amplitude, needs_recalculation>>
     /\ \A m \in MaxWordsInputs : set_max_words(m) /\ ~MaxWordsInRange(m)
           => UNCHANGED <<max_words_limit, needs_recalculation>>]_vars

\* C10 (amended): these setters do no range check: called with any value,
\* inside or outside the documented range, they store it and set
\* needs_recalculation.
C10_SettersStore ==
  [][/\ \A f \in FreqInputs : set_frequency(f)
           => frequency' = f /\ needs_recalculation'
     /\ \A a \in AmplInputs : set_amplitude(a)
           => amplitude' = a /\ needs_recalculation'
     /\ \A a \in DitherInputs : set_dither_amplitude(a)
           => dither_amplitude' = a /\ needs_recalculation'
     /\ \A a \in Hd3AmplInputs : set_hd3_amplitude(a)
           => hd3_amplitude' = a /\ needs_recalculation'
     /\ \A m \in MaxWordsInputs : set_max_words(m)
           => max_words_limit' = m /\ needs_recalculation']_vars

C10_Witness ==
  /\ frequency = 0 /\ amplitude = 2500 /\ dither_amplitude = 3500
  /\ hd3_amplitude = 600 /\ max_words_limit = 15000
  /\ needs_recalculation /\ since_apply = "dirty"

\* ------------------------------------------------ claims: buffer lengths
\* C11 (as claimed): the do-while of apply_settings that aborts the two
\* channels is always left.
C11_AbortLoopBounded ==
  (pc = "as_abort") ~> (pc \notin {"as_abort", "as_busy"})

\* C12 (as claimed): whenever the channels are armed the buffer length is at
\* least 1, for every frequency and every value passed to set_max_words.
C12_NonEmptyBuffer == restart_en => n_words >= 1

\* n_words and n_periods have been computed from the current parameters
LengthsFresh ==
  \/ pc \in {"ctor_fill", "ctor_pio", "ctor_dma", "as_fill", "as_dma"}
  \/ pc = "as_done" /\ mode # 0
  \/ since_apply = "clean" /\ mode # 0

\* the fraction calculate_buffers asks for
PperW ==
  LET t == TargetOf(frequency)
  IN rational_approximation(t.n, t.d, Uint32(Min(max_words, max_words_limit)))

FillLastIndex == Min(n_words, max_words) - 1

\* highest index fill_synth_buffer_silent writes
SilentLastIndex == max_words - 1

\* highest index the data channel reads: n_words transfers from the start of
\* the array
StreamLastIndex == n_words - 1

\* C21: after calculate_buffers with a configured cap of at least 1 the
\* buffer length is more than half of max_words and at most max_words, and
\* every index the fill routines write and every index the data channel
\* streams lies inside the static arrays of max_words words.
C21_BufferInsideArrays ==
  LengthsFresh /\ max_words_limit >= 1
    => /\ 2 * n_words > max_words
       /\ n_words <= max_words
       /\ FillLastIndex \in 0..(max_words - 1)
       /\ SilentLastIndex \in 0..(max_words - 1)
       /\ StreamLastIndex \in 0..(max_words - 1)

C21_Witness ==
  /\ LengthsFresh /\ synth_busy /\ max_words_limit = 10000
  /\ n_words < max_words /\ FillLastIndex = StreamLastIndex

\* ------------------------------------------------ claims: the fill routines
\* a fill routine is running or has returned
FillRunning == fill_call.at \in {"call", "slot", "store", "done"}

\* a fill routine has returned
FillDone == fill_call.at = "done"

\* the indices the running fill routine has stored so far
FillStored == 0..(Min(fill_call.ii, FillCap) - 1)

\* the two bits of slot j that are set in word w
SlotBits(w, j) == w \cap {2 * j, 2 * j + 1}

\* slot j of word w encodes the decision dec
Encodes(dec, w, j) ==
  IF dec = "+" THEN SlotBits(w, j) = {2 * j}
  ELSE IF dec = "-" THEN SlotBits(w, j) = {2 * j + 1}
  ELSE SlotBits(w, j) \in {{}, {2 * j, 2 * j + 1}}

\* every slot of the stored words of array a encodes the decisions p
ArrayEncodes(a, p) ==
  \A i \in FillStored :
     /\ a[i] \subseteq 0..31
     /\ \A j \in 0..15 : Encodes(Dec(p, i * 16 + j), a[i], j)

\* every slot of the stored words of array a has exactly one bit set
ArrayBinary(a) ==
  \A i \in FillStored : \A j \in 0..15 : Cardinality(SlotBits(a[i], j)) = 1

\* C22: in every word a fill routine has stored, slot j occupies the bit pair
\* (2j, 2j+1) and encodes the decision of its quantiser: '+' as bit 2j alone,
\* '-' as bit 2j+1 alone, '0' as both bits clear or both set; in the binary
\* modes 1, 2 and 4 every slot of the steady array, and of the ramp arrays in
\* mode 4, has exactly one bit set.
C22_SlotEncoding ==
  FillRunning
    => /\ ArrayEncodes(fill_call.steady, fill_call.pat[1])
       /\ fill_call.mode >= 4
            => /\ ArrayEncodes(fill_call.ramp_up, fill_call.pat[2])
               /\ ArrayEncodes(fill_call.ramp_down, fill_call.pat[3])
       /\ fill_call.mode \in {1, 2, 4} => ArrayBinary(fill_call.steady)
       /\ fill_call.mode = 4
            => /\ ArrayBinary(fill_call.ramp_up)
               /\ ArrayBinary(fill_call.ramp_down)

C22_Witness ==
  /\ FillDone /\ fill_call.mode = 5 /\ fill_call.n_words = FillCap
  /\ fill_call.pat[1] = <<"0", "-", "+", "0", "0">>
  /\ SlotBits(fill_call.steady[0], 0) = {}
  /\ SlotBits(fill_call.steady[0], 1) = {3}
  /\ SlotBits(fill_call.steady[0], 2) = {4}
  /\ SlotBits(fill_call.steady[0], 3) = {6, 7}
  /\ 31 \in fill_call.steady[1]
  /\ fill_call.ramp_down[0] # fill_call.steady[0]

\* number of slots generated so far in each stream
GenSlots(s) == 16 * Len(fill_call.gen[s])

\* the bits of slot t of generated stream s, as positions in the pair
GenEnc(s, t) ==
  LET w == fill_call.gen[s][(t \div 16) + 1]
      j == t % 16
  IN {b \in {0, 1} : 2 * j + b \in w}

\* slot t of stream s is a zero-level slot
GenZero(s, t) == Dec(fill_call.pat[s], t) = "0"

\* number of zero-level slots of stream s before slot t
ZerosBefore(s, t) == Cardinality({u \in 0..(t - 1) : GenZero(s, u)})

\* what slot u of stream s adds to the count of zero-encodings 00 minus the
\* count of zero-encodings 11
ZeroWeight(s, u) ==
  IF ~GenZero(s, u) THEN 0
  ELSE IF GenEnc(s, u) = {} THEN 1
  ELSE IF GenEnc(s, u) = {0, 1} THEN -1
  ELSE 0

\* element k+1 is the number of zero-encodings 00 minus the number of
\* zero-encodings 11 among the first k slots of stream s, for k up to n
RECURSIVE Balance(_, _)
Balance(s, n) ==
  IF n = 0 THEN <<0>>
  ELSE LET b == Balance(s, n - 1)
       IN Append(b, b[n] + ZeroWeight(s, n - 1))

\* C23: in the trinary modes 3 and 5, in each of the three generated streams
\* the zero-level slots are encoded alternately 00 and 11, the first one of a
\* regeneration as 00, whatever other slots lie between them; over every
\* contiguous range of slots of a stream the numbers of 00 and 11
\* zero-encodings differ by at most 1.
C23_ZeroEncodingsAlternate ==
  FillDone /\ fill_call.mode \in {3, 5}
    => \A s \in 1..3 :
         /\ \A t \in 0..(GenSlots(s) - 1) :
              GenZero(s, t)
                => GenEnc(s, t) = IF ZerosBefore(s, t) % 2 = 0 THEN {}
                                  ELSE {0, 1}
         /\ LET bal == Balance(s, GenSlots(s))
            IN \A a \in 1..Len(bal) : \A b \in a..Len(bal) :
                 bal[b] - bal[a] \in {-1, 0, 1}

C23_Witness ==
  /\ FillDone /\ fill_call.mode = 3 /\ fill_call.n_words = FillCap
  /\ fill_call.pat[1] = <<"0", "+">>
  /\ fill_call.pat[2] = <<"-", "0", "0">>
  /\ fill_call.pat[3] = <<"+", "0", "-", "0", "+", "-", "0">>
  /\ GenEnc(1, 0) = {} /\ GenEnc(1, 2) = {0, 1} /\ GenEnc(1, 4) = {}
  /\ GenEnc(2, 1) = {} /\ GenEnc(2, 2) = {0, 1} /\ GenEnc(2, 4) = {}
  /\ GenEnc(3, 1) = {} /\ GenEnc(3, 3) = {0, 1} /\ GenEnc(3, 6) = {}
  /\ fill_call.last_equal # fill_call.last_equal_up

\* C24: after a fill routine in mode 1, 2 or 3, for every index below
\* n_words the ramp-up word equals the steady word and the ramp-down word is
\* 0; in every mode the silent array is zero over its whole capacity.
C24_RampsForcedWhenNotClickFree ==
  FillDone
    => /\ fill_call.mode \in {1, 2, 3}
            => \A i \in 0..(fill_call.n_words - 1) :
                  /\ fill_call.ramp_up[i] = fill_call.steady[i]
                  /\ fill_call.ramp_down[i] = {}
       /\ \A i \in 0..(FillCap - 1) : fill_call.silent[i] = {}

C24_Witness ==
  /\ FillDone /\ fill_call.mode = 3 /\ fill_call.n_words = 1
  /\ fill_call.pat[3] = <<"+">>
  /\ fill_call.steady[0] # {} /\ fill_call.ramp_up[0] = fill_call.steady[0]
  /\ fill_call.ramp_down[0] = {}
  /\ fill_call.gen[3][1] # {}
  /\ fill_call.ramp_down[FillCap - 1] = {0, 3, 31}

\* ------------------------------------------------------------ claims: taper
\* taper has returned
TaperReturned == taper_call.at = "ret"

\* what taper returns for the slot after the one of the call
TaperOfNext ==
  taper(taper_call.n + 1, taper_call.n_max, taper_call.falling)

\* the window is monotonic from the slot of the call to the next one, and
\* within [0, 1]
TaperShape ==
  /\ taper_call.k >= 0 /\ taper_call.k <= TaperOne
  /\ taper_call.n + 1 < taper_call.n_max
       => IF taper_call.falling THEN TaperOfNext <= taper_call.k
          ELSE TaperOfNext >= taper_call.k

CmdStep == cmd_last' # cmd_last

\* the argument as typed lies outside the accepted range of the command
ArgOutOfRange(c) ==
  \/ c.cmd = "freq" /\ (c.arg < 100000 \/ c.arg > 20000000)
  \/ c.cmd = "mode" /\ (c.arg < 0 \/ c.arg > 50)
  \/ c.cmd = "bufsize" /\ (c.arg < 20 \/ c.arg > 100000)
  \/ c.cmd = "dither" /\ (c.arg < 0 \/ c.arg > 3000)
  \/ c.cmd = "ampl" /\ (c.arg < 0 \/ c.arg > 2000)
  \/ c.cmd = "ampl3" /\ (c.arg < -500 \/ c.arg > 500)
  \/ c.cmd = "ph3" /\ (c.arg < -400 \/ c.arg > 400)

\* the value the command reads from the argument lies outside the accepted
\* range: mode and bufsize read the integer before the decimal point
ParsedOutOfRange(c) ==
  \/ c.cmd = "mode" /\ (Str2Num(c.arg) < 0 \/ Str2Num(c.arg) > 5)
  \/ c.cmd = "bufsize" /\ (Str2Num(c.arg) < 2 \/ Str2Num(c.arg) > 10000)
  \/ c.cmd \notin {"mode", "bufsize"} /\ ArgOutOfRange(c)

RejectionTexts ==
  {"Invalid frequency value", "Mode must be between 0 and 5",
   "Bufsize must be between 2 and 10000", "Invalid dither value",
   "Invalid amplitude value", "Invalid HD3 amplitude value"}

\* the step prints a rejection, calls no setter and no apply_settings and
\* leaves current_config alone
Rejected ==
  /\ serial_last' \in RejectionTexts
  /\ UNCHANGED <<params, needs_recalculation, pc, config_frequency,
                 cmd_after>>

FreqStoreStep == cmd_after[1] = "freq" /\ cmd_after'[1] = "none"

\* a stat or a store command is carried out
StatusStep == cmd_last'.n # cmd_last.n /\ cmd_last'.cmd \in {"stat", "store"}

\* C38: after a freq command whose value v is accepted (100000 to 20000000)
\* current_config.frequency = v = the frequency requested of the synth, and
\* this stays so across later stat or store commands.
C38_ConfigFollowsFreq ==
  /\ [][FreqStoreStep => config_frequency' = frequency']_vars
  /\ [][StatusStep /\ config_frequency = frequency
          => config_frequency' = frequency']_vars

\* ------------------------------------------------- claims: configuration
\* the latest configuration routine called on its own is op
LastCall(op) == cfg_call.at # "idle" /\ cfg_call.last.op = op

\* current_config holds the default values
HoldsDefaults(c) ==
  /\ c.frequency = DEFAULT_FREQ
  /\ c.wpm = DEFAULT_WPM
  /\ CStr(c.fox_string) = DEFAULT_FOX
  /\ CStr(c.call) = DEFAULT_CALL

\* current_config is within its limits
WithinLimits(c) ==
  /\ c.frequency # NaN
  /\ MIN_FREQ <= c.frequency /\ c.frequency <= MAX_FREQ
  /\ MIN_WPM <= c.wpm /\ c.wpm <= MAX_WPM
  /\ Len(CStr(c.fox_string)) >= 1
  /\ c.is_initialized_token = EEPROM_INITIALIZED_TOKEN

\* C31: load_EEPROM_config returns true exactly when the stored token is
\* EEPROM_INITIALIZED_TOKEN; when it returns false current_config holds the
\* default values (3550000 Hz, 10 WPM, "MO", no call sign); and after every
\* call the frequency is within 3400000..3700000, the rate within 5..100,
\* the fox string is not empty and the token is valid.
C31_LoadPopulatesDefaults ==
  LastCall("load_EEPROM_config") =>
    /\ cfg_call.last.ret <=>
         (cfg_call.eeprom.is_initialized_token = EEPROM_INITIALIZED_TOKEN)
    /\ ~cfg_call.last.ret => HoldsDefaults(cfg_call.current_config)
    /\ WithinLimits(cfg_call.current_config)

\* the eight fox identifiers
FoxIdentifiers == {foxes[i] : i \in 1..8}

\* C32: fox_num_to_config(n) sets the fox string to the n-th identifier for
\* n in 0..7, and fox_string_to_num of it returns n; for every other n it
\* leaves current_config unchanged; fox_string_to_num returns the number
\* 0..7 of an identifier and -1 for every other string.
C32_FoxNumbersZeroToSeven ==
  /\ LastCall("fox_num_to_config") =>
       IF cfg_call.last.arg \in 0..7
       THEN /\ CStr(cfg_call.current_config.fox_string) =
                 foxes[cfg_call.last.arg + 1]
            /\ cfg_call.at = "tripped" => cfg_call.last.ret = cfg_call.last.arg
       ELSE cfg_call.current_config = cfg_call.last.pre
  /\ LastCall("fox_string_to_num") =>
       IF cfg_call.last.arg \in FoxIdentifiers
       THEN /\ cfg_call.last.ret \in 0..7
            /\ foxes[cfg_call.last.ret + 1] = cfg_call.last.arg
       ELSE cfg_call.last.ret = -1

\* the value of the frequency switches among the switches sw
FreqSwitch(sw) == (sw \div 16) % 16

\* C33: with the frequency switches at 0 read_switches loads the whole
\* configuration from the EEPROM whatever the other switches are; at 1..13
\* it sets current_config.frequency to the table value; at 14 or 15 it
\* leaves the frequency unchanged; apply_frequency_switch sets the frequency
\* to the table value for 1..13, leaves it unchanged for every other number
\* and never sets it to 0.
C33_FrequencySwitch ==
  /\ LastCall("read_switches") =>
       LET n == FreqSwitch(cfg_call.last.arg)
       IN /\ n = 0 =>
               cfg_call.current_config = sanitize_config(cfg_call.eeprom)
          /\ n \in 1..13 =>
               cfg_call.current_config.frequency = frequencies[n][2]
          /\ n \in {14, 15} =>
               cfg_call.current_config.frequency = cfg_call.last.pre.frequency
  /\ LastCall("apply_frequency_switch") =>
       /\ cfg_call.current_config.frequency # 0
       /\ cfg_call.current_config.frequency =
            (IF cfg_call.last.arg \in 1..13
             THEN frequencies[cfg_call.last.arg][2]
             ELSE cfg_call.last.pre.frequency)

\* the switches were read with the frequency switches at 13, the fox
\* switches at 3 and the speed switch closed
C33_Witness ==
  /\ LastCall("read_switches")
  /\ cfg_call.last.arg = 13 * 16 + 3 * 2 + 1
  /\ cfg_call.last.pre.frequency = 3600000
  /\ cfg_call.current_config.frequency = 3579900
  /\ CStr(cfg_call.current_config.fox_string) = <<77, 79, 83>>
  /\ cfg_call.current_config.wpm = 15

\* ------------------------------------------------ claims: hardware claims
\* the synth object has been constructed
Constructed == pc \notin {"boot", "ctor_calc", "ctor_fill", "ctor_pio", "ctor_dma"}

\* the control path is outside the constructor and apply_settings
ControlIdle == pc = "idle"

\* the settings in force are the ones last applied: no setter has been
\* called since construction or since the latest apply_settings completed
Settled ==
  /\ ControlIdle
  /\ \/ since_apply = "clean"
     \/ since_apply = "none" /\ ~needs_recalculation

\* the claims held: two DMA channels, named by synth_dma and restart_dma, or
\* none with both at the invalid marker; one PIO program and state machine
HwBalanced ==
  /\ Constructed =>
       /\ (synth_dma = INVALID_DMA) <=> (claimed = {})
       /\ (restart_dma = INVALID_DMA) <=> (claimed = {})
       /\ claimed # {} =>
            claimed = {synth_dma, restart_dma} /\ Cardinality(claimed) = 2
  /\ ControlIdle => pio_program # "NULL"
  /\ Settled =>
       /\ Cardinality(claimed) = (IF mode = 0 THEN 0 ELSE 2)
       /\ pio_program = (IF mode = 0 THEN "toggle" ELSE "serialiser")

\* channels are claimed only when none is claimed, and released only when
\* they are the two claimed; a PIO program is loaded and a state machine
\* claimed only when none is held
HwSteps ==
  /\ claimed' # claimed =>
       \/ claimed = {} /\ Cardinality(claimed') = 2
       \/ /\ claimed' = {}
          /\ claimed = {synth_dma, restart_dma}
          /\ Cardinality(claimed) = 2
  /\ (pio_program' # pio_program /\ pio_program' # "NULL") =>
       pio_program = "NULL"

\* C34: over any sequence of setters, keying calls and apply_settings after
\* construction the hardware claims stay balanced: with the settings applied
\* two DMA channels are claimed in modes 1..5 and none in mode 0; one PIO
\* program and state machine are held whenever the control path is idle;
\* nothing is claimed while still claimed or released when not claimed, and
\* synth_dma and restart_dma hold 999999 exactly when no channel is claimed.
C34_HardwareClaimsBalanced == []HwBalanced /\ [][HwSteps]_vars

\* settings have been applied in mode 0: no channel is claimed, the toggle
\* program is loaded
C34_Witness ==
  /\ Settled
  /\ since_apply = "clean"
  /\ mode = 0
  /\ claimed = {}
  /\ synth_dma = INVALID_DMA
  /\ pio_program = "toggle"

\* C35: in mode 0, with the toggle program loaded and the control path idle,
\* the RF pins are driven as outputs exactly when enable_transmit is true.
C35_CarrierFollowsKey ==
  (ControlIdle /\ mode = 0 /\ pio_program = "toggle") =>
    (rf_pindirs_out <=> enable_transmit)

\* ------------------------------------------------- claims: Morse keying
\* sendMorseLetter is being called with the code and length of a letter
LetterRunning == morse.at = "letter"

\* the calls of start_transmitting and stop_transmitting made for the letter
\* alternate, beginning with start_transmitting
CallsAlternate ==
  \A i \in 1..Len(morse.calls) :
    morse.calls[i] = IF i % 2 = 1 THEN "start" ELSE "stop"

\* the number of times the key went down for the letter
KeyDowns == Cardinality({i \in 1..Len(morse.calls) : morse.calls[i] = "start"})

\* C27: sendMorseLetter(code, len) keys at most len times while the letter is
\* under way and exactly len times once it has returned 1; the calls of
\* start_transmitting and stop_transmitting alternate beginning with
\* start_transmitting; the i-th key-down is scheduled to last msPerDash if bit
\* len - i of code is 1 and msPerDot otherwise; 1 is returned once per
\* letter, after the last element, with the transmitter disabled.
C27_LetterKeying ==
  LetterRunning =>
    /\ CallsAlternate
    /\ KeyDowns = Len(morse.durs)
    /\ KeyDowns <= morse.arg_len
    /\ \A i \in 1..Len(morse.durs) :
         morse.durs[i] = IF Bit(morse.arg_code, morse.arg_len - i)
                         THEN morse.msPerDash ELSE morse.msPerDot
    /\ morse.ones <= 1
    /\ morse.l_ret = 1 =>
         /\ KeyDowns = morse.arg_len
         /\ Len(morse.calls) = 2 * morse.arg_len
         /\ morse.ones = 1
         /\ ~morse.transmitting
    /\ morse.ones = 1 => morse.l_state = 0 /\ KeyDowns = morse.arg_len

\* the letter B (dash dot dot dot) has been sent and 1 returned
C27_Witness ==
  /\ LetterRunning
  /\ morse.l_ret = 1
  /\ morse.arg_code = 8
  /\ morse.arg_len = 4
  /\ morse.durs = <<morse.msPerDash, morse.msPerDot, morse.msPerDot,
                    morse.msPerDot>>

\* sendMorseString is being called with a string
StringRunning == morse.at = "string"

\* character i (from 0) of str has an entry in MorseLengths that is not zero
HasCode(str, i) == str[i + 1] < 128 /\ MorseLengths[str[i + 1] + 1] > 0

\* what sendMorseString is to send for the first n characters of str, in
\* order: a letter for a character with a code, a pause for a space, nothing
\* for any other character
RECURSIVE Expected(_, _)
Expected(str, n) ==
  IF n = 0 THEN <<>>
  ELSE LET e == Expected(str, n - 1)
       IN IF str[n] = 32 THEN Append(e, <<"pause", n - 1>>)
          ELSE IF HasCode(str, n - 1) THEN Append(e, <<"letter", n - 1>>)
          ELSE e

\* s is the beginning of t
IsPrefix(s, t) == Len(s) <= Len(t) /\ \A i \in 1..Len(s) : s[i] = t[i]

\* C28: sendMorseString sends each character of the string that has a
\* non-zero MorseLengths entry once and in order, a pause for each space, and
\* skips every other character without keying; when it returns 1 all of that
\* has been sent and the index is back at 0.
C28_SendsCodedCharacters ==
  StringRunning =>
    /\ IsPrefix(morse.sent, Expected(morse.arg_str, Len(morse.arg_str)))
    /\ morse.s_ret = 1 =>
         /\ morse.sent = Expected(morse.arg_str, Len(morse.arg_str))
         /\ morse.charNo = 0

\* loop() is being called with key_down false
LoopRunning == morse.at = "loop" /\ ~morse.key_down

\* n times the fox string and a word pause, both at rate r
RECURSIVE FoxRounds(_, _)
FoxRounds(n, r) ==
  IF n = 0 THEN <<>>
  ELSE FoxRounds(n - 1, r) \o <<(<<"fox", r>>), (<<"pause", r>>)>>

\* one cycle of loop(): the fox string ten times at rate r, then, unless the
\* call sign is empty, the call sign and a word pause at rate r2
CycleOf(r, r2) ==
  FoxRounds(10, r) \o
    (IF Len(morse.call) = 0 THEN <<>>
     ELSE <<(<<"call", r2>>), (<<"pause", r2>>)>>)

\* what has been sent of the cycle is the beginning of c, and all of c when
\* the cycle restarts
CycleFollows(c) ==
  /\ IsPrefix(morse.cycle, c)
  /\ morse.cycle_done => morse.cycle = c

\* C29, as claimed: in every cycle of loop() the fox string is sent exactly
\* ten times at the configured rate, each time followed by a word pause, then
\* the call sign once at twice the configured rate followed by a word pause;
\* with an empty call sign the cycle restarts after the ten rounds.
C29_CallAtTwiceTheRate ==
  LoopRunning => CycleFollows(CycleOf(morse.wpm, 2 * morse.wpm))

\* C29, amended: as above, with the call sign sent at twice the configured
\* rate or at 100 WPM, whichever is less.
C29_CallAtTwiceTheRateUpTo100 ==
  LoopRunning => CycleFollows(CycleOf(morse.wpm, Min(2 * morse.wpm, 100)))

\* a cycle with a call sign has been completed at a configured rate above 50
C29_Witness ==
  /\ LoopRunning
  /\ morse.cycle_done
  /\ Len(morse.cycle) = 22
  /\ morse.wpm = 100
  /\ morse.cycle[21] = <<"call", 100>>

\* the keyer is sending
MorseRunning == morse.at \in {"letter", "string", "loop"}

\* WPM as initMorseRate clamps it
Clamped(WPM) == IF WPM < 5 THEN 5 ELSE IF WPM > 100 THEN 100 ELSE WPM

\* the gaps scheduled after the key-ups of the letter under way: one unit
\* before a further element, three units in all after the last element
GapsInUnits ==
  \A i \in 1..Len(morse.gaps) :
    LET ms == morse.gaps[i][1]
        unit == morse.gaps[i][2]
    IN IF i < Len(morse.durs) THEN ms = unit
       ELSE IF morse.l_state = 2 THEN ms = unit
       ELSE ms = 3 * unit /\ morse.currentBit = 0

\* the pause scheduled for a space or by sendWordPause is four units, seven
\* with the three units that follow the last element of a letter
PausesInUnits ==
  \A i \in 1..Len(morse.pauses) :
    LET ms == morse.pauses[i][1]
        unit == morse.pauses[i][2]
    IN ms = 4 * unit /\ 3 * unit + ms = 7 * unit

\* a dot is one unit and a dash three, and so are the key-downs scheduled
DotsAndDashesInUnits ==
  /\ morse.msPerDot = morse.msPerUnit
  /\ morse.msPerDash = 3 * morse.msPerUnit
  /\ morse.msPiecePause = morse.msPerUnit
  /\ morse.msCharPause = 3 * morse.msPerUnit
  /\ morse.msWordPause = 7 * morse.msPerUnit

\* initMorseRate has been called
RateSet == morse.wpm_arg # -1

\* C30, as claimed: on the scheduled event times there is one unit between
\* the elements of a letter, three units after its last element, and a space
\* or sendWordPause adds four units; a dash is three units; and for every WPM
\* the unit is 1200/WPM ms with WPM clamped to 5..100.
C30_UnitIs1200OverWPM ==
  MorseRunning =>
    /\ GapsInUnits
    /\ PausesInUnits
    /\ DotsAndDashesInUnits
    /\ RateSet => morse.msPerUnit * Clamped(morse.wpm_arg) = 1200

\* C30, amended: as above, with the unit 1200/WPM ms rounded down to a whole
\* number of ms.
C30_UnitIs1200OverWPMRoundedDown ==
  MorseRunning =>
    /\ GapsInUnits
    /\ PausesInUnits
    /\ DotsAndDashesInUnits
    /\ RateSet =>
         /\ morse.msPerUnit * Clamped(morse.wpm_arg) <= 1200
         /\ (morse.msPerUnit + 1) * Clamped(morse.wpm_arg) > 1200

\* at 7 WPM, where the unit is 171 ms, a letter has been sent and a pause of
\* four units scheduled after it
C30_Witness ==
  /\ morse.at = "loop"
  /\ morse.wpm_arg = 7
  /\ morse.msPerUnit = 171
  /\ morse.gaps = <<(<<513, 171>>)>>
  /\ morse.pauses = <<(<<684, 171>>)>>

\* a pass of loop() has ended with key_down false
PassEnded(at) == morse.at = at /\ morse.polled /\ ~morse.key_down

\* C36: whenever key_down is false, at the end of each pass of loop() the
\* transmitter is enabled only while sendMorseLetter is in its key-down state
\* (state 1): it is not left enabled during an inter-element, inter-character
\* or word pause, a space, or while characters without a code are skipped.
C36_KeyedOnlyInKeyDownState ==
  PassEnded("keyed") => (morse.transmitting => morse.l_state = 1)

\* a call of sendMorseString that looks the next character up in MorseCodes
\* and MorseLengths: a new character is due and it is not a space
LookupStep ==
  /\ morse.at = "string"
  /\ morse'.polled
  /\ morse'.global_time = morse.global_time
  /\ morse.s_state = 0
  /\ morse.charNo < Len(morse.arg_str)
  /\ morse.arg_str[morse.charNo + 1] # 32

\* C37: every lookup MorseCodes[c] and MorseLengths[c] in sendMorseString
\* uses an index inside the 128-entry tables, for every character 0..255 of
\* the string being sent.
C37_LookupInsideTables ==
  [][LookupStep => morse.arg_str[morse.charNo + 1] < 128]_vars

\* ------------------------------------------- claims: rational_approximation
\* rational_approximation has returned
Returned == ra_call.at = "ret"

\* the call's target lies in [0,1]
InRange == ra_call.tn >= 0 /\ ra_call.tn <= ra_call.td

Abs(x) == IF x < 0 THEN -x ELSE x

\* |p/q - target| <= |p2/q2 - target| for the call's target
NoFarther(p, q, p2, q2) ==
  Abs(p * ra_call.td - ra_call.tn * q) * q2
    <= Abs(p2 * ra_call.td - ra_call.tn * q2) * q

\* largest maxdenom for which every fraction is enumerated
BruteBound == 41

\* C13: for a target in [0,1] and maxdenom >= 1 the returned p/q has
\* 1 <= q <= maxdenom and no fraction p2/q2 with 0 <= p2 <= q2 <= maxdenom is
\* closer to the target (every such fraction is enumerated, for maxdenom up
\* to BruteBound).
C13_BestApproximation ==
  Returned /\ InRange /\ ra_call.maxdenom >= 1
           /\ ra_call.maxdenom <= BruteBound
    => /\ ra_call.s.bd >= 1 /\ ra_call.s.bd <= ra_call.maxdenom
       /\ \A q2 \in 1..ra_call.maxdenom : \A p2 \in 0..q2 :
            NoFarther(ra_call.s.ac, ra_call.s.bd, p2, q2)

C13_Witness ==
  /\ Returned /\ InRange
  /\ ra_call.maxdenom >= 5 /\ ra_call.maxdenom <= BruteBound
  /\ ra_call.td > ra_call.maxdenom /\ ra_call.tn > 1
  /\ ra_call.s.bd > 2 /\ ra_call.passes >= 3

\* C14: a target that is exactly p/q in lowest terms with q <= maxdenom is
\* returned as numerator p and denominator q.
C14_ExactFractions ==
  LET g == GCD(ra_call.tn, ra_call.td)
  IN Returned /\ InRange /\ ra_call.maxdenom >= 1
              /\ ra_call.td \div g <= ra_call.maxdenom
       => /\ ra_call.s.ac = ra_call.tn \div g
          /\ ra_call.s.bd = ra_call.td \div g

C14_Witness ==
  /\ Returned /\ ra_call.tn = 6 /\ ra_call.td = 9 /\ ra_call.maxdenom = 3
  /\ ra_call.s.ac = 2 /\ ra_call.s.bd = 3

\* C15 (as claimed): rational_approximation(1/3001, 3000) returns 0/1.
C15_ReturnsZero ==
  Returned /\ ra_call.tn = 1 /\ ra_call.td = 3001 /\ ra_call.maxdenom = 3000
    => ra_call.s.ac = 0 /\ ra_call.s.bd = 1

\* C15 (amended): rational_approximation(1/3001, 3000) returns 1/3000, the
\* fraction with denominator <= 3000 nearest to the target.
C15_ReturnsNearest ==
  Returned /\ ra_call.tn = 1 /\ ra_call.td = 3001 /\ ra_call.maxdenom = 3000
    => ra_call.s.ac = 1 /\ ra_call.s.bd = 3000

C15_Witness ==
  /\ Returned /\ ra_call.tn = 1 /\ ra_call.td = 3001
  /\ ra_call.maxdenom = 3000 /\ ra_call.s.bd = 3000

PassStep == ra_call.at = "loop" /\ ra_call' # ra_call

C18_Clamped ==
  Returned
    => /\ ra_call.tn > ra_call.td
            => ra_call.s.ac = 1 /\ ra_call.s.bd = 1
       /\ ra_call.tn < 0 => ra_call.s.ac = 0 /\ ra_call.s.bd = 1
       /\ ra_call.maxdenom = 0
            => LET r == rational_approximation(ra_call.tn, ra_call.td,
                                               Uint32(1))
               IN /\ ra_call.s.ac = r.numerator
                  /\ ra_call.s.bd = r.denominator
                  /\ ra_call.s.bd = 1
       /\ ra_call.s.bd > 0
       /\ ra_call.s.ac <= ra_call.s.bd

C18_Witness ==
  /\ Returned /\ ra_call.tn > ra_call.td /\ ra_call.maxdenom = 0
  /\ ra_call.s.ac = 1 /\ ra_call.s.bd = 1

\* ------------------------------------------- the Farey loop in double
\* a pass of the loop is about to start: the range checks on target have
\* passed and no pass has ended the loop
PassStart == ra_call.at = "double_loop"

\* a/b <= target <= c/d, the double target and the fractions compared as the
\* numbers they are
Brackets(T, s) ==
  /\ ~DblLess(DblTimes(T, s.b), DblOf(s.a))
  /\ ~DblLess(DblOf(s.c), DblTimes(T, s.d))

\* the bounds <<a, b, c, d>> after n single mediant steps on one side: each
\* step replaces c/d (side "c") or a/b (side "a") by (a+c)/(b+d)
RECURSIVE MediantSteps(_, _, _)
MediantSteps(w, side, n) ==
  IF n = 0 THEN w
  ELSE IF side = "c"
  THEN MediantSteps(<<w[1], w[2], w[1] + w[3], w[2] + w[4]>>, side, n - 1)
  ELSE MediantSteps(<<w[1] + w[3], w[2] + w[4], w[3], w[4]>>, side, n - 1)

\* fast forwards are compared with single steps up to this many steps
MaxSteps == 40

\* a pass that fast-forwards one of the bounds
ForwardStep ==
  /\ PassStart
  /\ ra_call'.at = "double_loop"
  /\ ra_call'.s.Nint <= MaxSteps

\* C39: at the start of every pass of the approximation loop the bounds
\* satisfy a/b <= target <= c/d, b*c - a*d = 1, 1 <= b <= maxdenom and
\* 1 <= d <= maxdenom, and each fast forward of Nint steps yields the bounds
\* that Nint single mediant steps on the same side yield.
C39_LoopInvariant ==
  /\ [](PassStart =>
          /\ Brackets(ra_call.target, ra_call.s)
          /\ ra_call.s.b * ra_call.s.c - ra_call.s.a * ra_call.s.d = 1
          /\ 1 <= ra_call.s.b /\ ra_call.s.b <= ra_call.maxdenom
          /\ 1 <= ra_call.s.d /\ ra_call.s.d <= ra_call.maxdenom)
  /\ [][ForwardStep =>
          <<ra_call'.s.a, ra_call'.s.b, ra_call'.s.c, ra_call'.s.d>> =
            MediantSteps(<<ra_call.s.a, ra_call.s.b, ra_call.s.c,
                           ra_call.s.d>>,
                         ra_call'.s.side, ra_call'.s.Nint)]_vars

\* the unsigned intermediates of the latest pass: a+c, b+d, and, where a
\* bound was fast-forwarded, floor(N), Nint*b or Nint*d, d + Nint*b or
\* b + Nint*d
Intermediates == ra_call.s.wide

\* a call with a double target and maxdenom within 1..100000000 has run at
\* least one pass
PassRun ==
  /\ ra_call.at \in {"double_loop", "double_ret"}
  /\ ra_call.passes > 0
  /\ ra_call.maxdenom <= 100000000

\* C40: for targets in [0,1] and maxdenom from 1 to 100000000 no unsigned
\* intermediate of rational_approximation wraps around: a+c, b+d, Nint,
\* Nint*b, Nint*d, d + Nint*b and b + Nint*d stay below 2^32, and Nint*b and
\* Nint*d stay at or below 10*maxdenom.
C40_NoWrapAround ==
  PassRun =>
    /\ ~ra_call.s.wrapped
    /\ \A i \in 1..Len(Intermediates) : ~Beyond32(Intermediates[i])
    /\ Len(Intermediates) = 5 =>
         BigCmp(Intermediates[4], BigOf(10 * ra_call.maxdenom)) <= 0

\* a fast forward at maxdenom = 100000000 whose Nint*b or Nint*d exceeds
\* maxdenom, so that Nint is limited
C40_Witness ==
  /\ PassRun
  /\ ra_call.maxdenom = 100000000
  /\ ~ra_call.s.wrapped
  /\ Len(Intermediates) = 5
  /\ BigCmp(Intermediates[4], BigOf(ra_call.maxdenom)) > 0
  /\ BigCmp(Intermediates[4], BigOf(10 * ra_call.maxdenom)) <= 0
====
